---- MODULE Spec2Model ----
(***************************************************************************)
(* QuickReader ingestion-and-indexing pipeline.                            *)
(*                                                                         *)
(* Strings are modelled as sequences of characters; a character is a       *)
(* one-symbol TLA+ string.  "em", "en" and "el" stand for the em-dash, the *)
(* en-dash and the ellipsis character, "q" for the straight double quote.  *)
(* The empty string is <<>>.                                               *)
(***************************************************************************)
EXTENDS Integers, Sequences, FiniteSets, TLC

VARIABLES
    segPc,        \* the segmenter function being called, or "returned"
    token,        \* argument of splitOnDashes
    tokens,       \* value returned by splitOnDashes(token)
    wordList,     \* argument of mergeOrphanedPunctuation
    merged,       \* value returned by mergeOrphanedPunctuation(wordList)
    parsePc,      \* position of parseFile: "idle" | "parsing" | "adapted" | "returned"
    file,         \* the file handed to parseFile: its format and its content
    adapterResult, \* the value `await adapter.parse(file)` returned
    idxMap,       \* parseFile's local indexMap (old word index -> new word index), <<>> until built
    parseResult,  \* the value parseFile returns
    kindlePc,     \* the Kindle function being called, or its "...Returned"
    packed,       \* argument of decompressPalmDoc
    palm,         \* decompressPalmDoc(packed): the bytes and the copy steps taken
    container,    \* the file handed to parseMobiFile
    mobiFile,     \* how parseMobiFile(container) ended
    mobiResult,   \* the value mobiAdapter.parse returns for the container
    docStore,     \* the document store's state: loading, error, fileKey, document
    reader,       \* the reader store's state: wordIndex, isPlaying, hasStarted, lastReadIndex
    playbackInterval, \* the reader store's timer handle, NoTimer for null
    timers,       \* the handles of the timeouts that are set and have not fired
    progress,     \* the saved reading position of each file key (localStorage)
    loadingFile   \* the file loadFile is awaiting the parse of, NoLoad outside loadFile

segVars == <<segPc, token, tokens, wordList, merged>>
parseVars == <<parsePc, file, adapterResult, idxMap, parseResult>>
kindleVars == <<kindlePc, packed, palm, container, mobiFile, mobiResult>>
readerVars == <<docStore, reader, playbackInterval, timers, progress, loadingFile>>
vars == <<segPc, token, tokens, wordList, merged,
          parsePc, file, adapterResult, idxMap, parseResult,
          kindlePc, packed, palm, container, mobiFile, mobiResult,
          docStore, reader, playbackInterval, timers, progress, loadingFile>>

----------------------------------------------------------------------------
(* Bounds of the model *)

MaxTokenLen == 5      \* longest token handed to splitOnDashes
MaxWords == 4         \* longest list handed to mergeOrphanedPunctuation
MaxParagraphs == 5    \* most paragraphs of a plain-text file
MaxNodes == 5         \* most top-level nodes of a Kindle file's markup
MaxSpine == 2         \* most spine items of an EPUB file
MaxItemNodes == 2     \* most top-level nodes of a spine item's body
TargetWordsPerPage == 2  \* the targetWordsPerPage argument the adapters are called with
MaxCompressedLen == 5 \* longest byte sequence handed to decompressPalmDoc
MaxRecords == 3       \* largest record count of a Kindle container

----------------------------------------------------------------------------
(* Strings *)

RECURSIVE Concat(_)
\* s[1] + s[2] + ... for a sequence of strings
Concat(s) == IF s = <<>> THEN <<>> ELSE Head(s) \o Concat(Tail(s))

RECURSIVE SeqsUpTo(_, _)
\* all sequences over S of length <= n
SeqsUpTo(S, n) ==
    IF n = 0 THEN {<<>>}
    ELSE LET shorter == SeqsUpTo(S, n - 1)
         IN  shorter \cup {Append(s, c) : s \in shorter, c \in S}

RECURSIVE SplitOn(_, _)
\* String.prototype.split with a one-character separator
SplitOn(word, sep) ==
    IF \A i \in 1..Len(word) : word[i] # sep THEN <<word>>
    ELSE LET i == CHOOSE k \in 1..Len(word) :
                      word[k] = sep /\ \A j \in 1..(k - 1) : word[j] # sep
         IN  <<SubSeq(word, 1, i - 1)>> \o SplitOn(SubSeq(word, i + 1, Len(word)), sep)

----------------------------------------------------------------------------
(* Word segmenter: splitOnDashes *)

DashChars == {"em", "en", "el"}
ThreeDots == <<".", ".", ".">>

\* splitPattern.test(word) for /(em|en|el|\.\.\.)/
TestSplitPattern(word) ==
    \/ \E i \in 1..Len(word) : word[i] \in DashChars
    \/ \E i \in 1..(Len(word) - 2) : SubSeq(word, i, i + 2) = ThreeDots

RECURSIVE SplitByPattern(_, _)
\* word.split(splitPattern): the pattern has a capture group, so the matched
\* separators are kept in the result, between the pieces; cur is the piece
\* being scanned
SplitByPattern(word, cur) ==
    IF word = <<>> THEN <<cur>>
    ELSE IF Head(word) \in DashChars
         THEN <<cur, <<Head(word)>>>> \o SplitByPattern(Tail(word), <<>>)
    ELSE IF Len(word) >= 3 /\ SubSeq(word, 1, 3) = ThreeDots
         THEN <<cur, ThreeDots>> \o SplitByPattern(SubSeq(word, 4, Len(word)), <<>>)
    ELSE SplitByPattern(Tail(word), Append(cur, Head(word)))

RECURSIVE AttachParts(_, _)
\* the for loop over parts: a mark is appended to the last produced token if
\* there is one, any other non-empty part is pushed
AttachParts(parts, result) ==
    IF parts = <<>> THEN result
    ELSE LET part == Head(parts)
         IN  IF part \in {<<"em">>, <<"en">>, <<"el">>, ThreeDots}
             THEN IF Len(result) > 0
                  THEN AttachParts(Tail(parts),
                          [result EXCEPT ![Len(result)] = @ \o part])
                  ELSE AttachParts(Tail(parts), result)
             ELSE IF Len(part) > 0
                  THEN AttachParts(Tail(parts), Append(result, part))
                  ELSE AttachParts(Tail(parts), result)


\* hyphenParts.map((part, i) => i < hyphenParts.length - 1 ? part + '-' : part)
ReattachHyphens(hyphenParts) ==
    [i \in 1..Len(hyphenParts) |->
        IF i < Len(hyphenParts) THEN Append(hyphenParts[i], "-") ELSE hyphenParts[i]]

splitOnDashes(word) ==
    LET hyphenParts == SplitOn(word, "-")
    IN  IF Len(hyphenParts) > 2
        THEN SelectSeq(ReattachHyphens(hyphenParts),
                       LAMBDA w : Len(w) > 0 /\ w # <<"-">>)
        ELSE IF ~TestSplitPattern(word)
             THEN <<word>>
             ELSE SelectSeq(AttachParts(SplitByPattern(word, <<>>), <<>>),
                            LAMBDA w : Len(w) > 0)

----------------------------------------------------------------------------
(* Word segmenter: mergeOrphanedPunctuation *)

\* "(" stands for ( [ {, "q" for the quotation marks of either class and "."
\* for . , ; : ! ?

\* leadingPunctuation.test(word): one or more characters, all opening
leadingPunctuation(word) ==
    Len(word) > 0 /\ \A i \in 1..Len(word) : word[i] \in {"(", "q"}

\* trailingPunctuation.test(word): one or more characters, all closing
trailingPunctuation(word) ==
    Len(word) > 0 /\ \A i \in 1..Len(word) : word[i] \in {")", "q", "."}

RECURSIVE TrailingEnd(_, _)
\* the inner while loops: the first position at or after i that is past the
\* end or does not hold trailing punctuation
TrailingEnd(words, i) ==
    IF i <= Len(words) /\ trailingPunctuation(words[i])
    THEN TrailingEnd(words, i + 1)
    ELSE i

\* the variant of JoinRun that loses the last token it consumed
JoinRunShort(words, i, j) == Concat(SubSeq(words, i, j - 2))

\* merged = words[i] + ... + words[j-1], as accumulated by merged += words[i]
JoinRun(words, i, j) == Concat(SubSeq(words, i, j - 1))

\* result.push(joined); i = j
PushMerged(s, joined, j) == [i |-> j, result |-> Append(s.result, joined)]

\* the body of the outer while loop; s holds the position i and result, the
\* tokens pushed so far
MergeStep(words, s) ==
    IF leadingPunctuation(words[s.i]) /\ s.i + 1 <= Len(words)
    THEN PushMerged(s, JoinRun(words, s.i, TrailingEnd(words, s.i + 2)),
                    TrailingEnd(words, s.i + 2))
    ELSE IF s.i + 1 <= Len(words) /\ trailingPunctuation(words[s.i + 1])
    THEN PushMerged(s, JoinRun(words, s.i, TrailingEnd(words, s.i + 1)),
                    TrailingEnd(words, s.i + 1))
    ELSE PushMerged(s, words[s.i], s.i + 1)

RECURSIVE MergeLoop(_, _)
\* while (i < words.length)
MergeLoop(words, s) ==
    IF s.i > Len(words) THEN s.result ELSE MergeLoop(words, MergeStep(words, s))

mergeOrphanedPunctuation(words) ==
    IF Len(words) = 0 THEN words ELSE MergeLoop(words, [i |-> 1, result |-> <<>>])

----------------------------------------------------------------------------
(* Documents.  Word indices, boundary-table entries and data-word-index    *)
(* values are 0-based as in the code; TLA+ sequences are 1-based, so the   *)
(* word with index i is words[i + 1].                                      *)

NewWord(text, paragraphIndex, pageIndex, italic, bold) ==
    [text |-> text, paragraphIndex |-> paragraphIndex, pageIndex |-> pageIndex,
     italic |-> italic, bold |-> bold]

NewDocument(words, paragraphStarts, pageStarts, totalParagraphs) ==
    [words |-> words, paragraphStarts |-> paragraphStarts, pageStarts |-> pageStarts,
     totalWords |-> Len(words), totalParagraphs |-> totalParagraphs,
     totalPages |-> Len(pageStarts)]

TextsOf(words) == [k \in 1..Len(words) |-> words[k].text]

\* text.startsWith(prefix)
StartsWith(text, prefix) ==
    Len(prefix) <= Len(text) /\ SubSeq(text, 1, Len(prefix)) = prefix

RECURSIVE FlatMapSplit(_)
\* rawWords.flatMap(splitOnDashes)
FlatMapSplit(rawWords) ==
    IF rawWords = <<>> THEN <<>>
    ELSE splitOnDashes(Head(rawWords)) \o FlatMapSplit(Tail(rawWords))

----------------------------------------------------------------------------
(* Plain text adapter: parseText.  A text is given as its paragraphs (the  *)
(* non-blank pieces between blank lines), each the list of its             *)
(* whitespace-separated raw words.                                         *)

RECURSIVE ParseTextLoop(_, _, _, _)
\* paragraphs.forEach from the paragraph with index paragraphIndex
ParseTextLoop(paragraphs, paragraphIndex, st, targetWordsPerPage) ==
    IF paragraphIndex >= Len(paragraphs) THEN st
    ELSE LET paragraphWords == FlatMapSplit(paragraphs[paragraphIndex + 1])
             pushed == [st EXCEPT
                 !.paragraphStarts = Append(@, st.wordIndex),
                 !.words = @ \o [k \in 1..Len(paragraphWords) |->
                     NewWord(paragraphWords[k], paragraphIndex, st.currentPage, FALSE, FALSE)],
                 !.wordIndex = @ + Len(paragraphWords),
                 !.wordsOnCurrentPage = @ + Len(paragraphWords)]
             broken == IF /\ pushed.wordsOnCurrentPage >= targetWordsPerPage
                          /\ paragraphIndex < Len(paragraphs) - 1
                       THEN [pushed EXCEPT
                                !.currentPage = @ + 1,
                                !.pageStarts = Append(@, pushed.wordIndex),
                                !.wordsOnCurrentPage = 0]
                       ELSE pushed
         IN  ParseTextLoop(paragraphs, paragraphIndex + 1, broken, targetWordsPerPage)

RECURSIVE AssignPages(_, _, _, _)
\* the final loop of parseText: pageIndex of every word from the page table
AssignPages(words, pageStarts, i, pageIdx) ==
    IF i >= Len(words) THEN words
    ELSE LET next == IF pageIdx < Len(pageStarts) - 1 /\ i >= pageStarts[pageIdx + 2]
                     THEN pageIdx + 1 ELSE pageIdx
         IN  AssignPages([words EXCEPT ![i + 1].pageIndex = next], pageStarts, i + 1, next)

parseText(paragraphs, targetWordsPerPage) ==
    LET st == ParseTextLoop(paragraphs, 0,
                  [words |-> <<>>, paragraphStarts |-> <<>>, pageStarts |-> <<0>>,
                   wordIndex |-> 0, currentPage |-> 0, wordsOnCurrentPage |-> 0],
                  targetWordsPerPage)
    IN  NewDocument(AssignPages(st.words, st.pageStarts, 0, 0),
                    st.paragraphStarts, st.pageStarts, Len(paragraphs))

\* an adapter result without preview content
NoPreview == [present |-> FALSE, chapterContents |-> <<>>, chapterStarts |-> <<>>]

\* textAdapter.parse: the document parseText builds, no preview
textAdapterParse(paragraphs) ==
    [document |-> parseText(paragraphs, TargetWordsPerPage), chapters |-> <<>>,
     preview |-> NoPreview]

----------------------------------------------------------------------------
(* Markup.  A content tree is a sequence of nodes; a text node carries the *)
(* whitespace-separated raw words of its text, an element its child nodes. *)
(* Annotated markup (htmlWithMarkers) is a sequence of items: a word span  *)
(* with its data-word-index and text, an image with its data-word-index    *)
(* (-1 when it has none), any other tag, unindexed text, or whitespace.    *)

Txt(toks) == [tag |-> "#text", toks |-> toks, kids |-> <<>>]
El(tag, kids) == [tag |-> tag, toks |-> <<>>, kids |-> kids]
\* an img element of Kindle markup; resolved: imageMap has its record
MobiImg(resolved) ==
    [tag |-> "img", toks |-> IF resolved THEN << <<"blobUrl">> >> ELSE <<>>, kids |-> <<>>]

SpanItem(idx, text) == [k |-> "span", idx |-> idx, text |-> text]
ImgItem(idx) == [k |-> "img", idx |-> idx, text |-> <<>>]
TagItem(name) == [k |-> "tag", idx |-> -1, text |-> <<name>>]
TextItem(text) == [k |-> "text", idx |-> -1, text |-> text]
WsItem == [k |-> "ws", idx |-> -1, text |-> <<>>]

\* escapeHtml: the double quote becomes an entity (no other escaped
\* character occurs in the modelled texts)
escapeHtml(text) ==
    [i \in 1..Len(text) |-> IF text[i] = "q" THEN "&quot;" ELSE text[i]]

----------------------------------------------------------------------------
(* mergeOrphanedPunctuation as epub-parser.ts and mobi-adapter.ts call it: *)
(* the result has the merged words and, for every input index, the index   *)
(* of the merged word it went into                                         *)

\* one past the last token of the run that starts at i
RunEnd(words, i) ==
    IF leadingPunctuation(words[i]) /\ i + 1 <= Len(words)
    THEN TrailingEnd(words, i + 2)
    ELSE IF i + 1 <= Len(words) /\ trailingPunctuation(words[i + 1])
         THEN TrailingEnd(words, i + 1)
         ELSE i + 1

RECURSIVE RunIndexLoop(_, _)
\* s holds the position i, the number n of the run and the map built so far
RunIndexLoop(words, s) ==
    IF s.i > Len(words) THEN s.map
    ELSE RunIndexLoop(words,
             [i |-> RunEnd(words, s.i), n |-> s.n + 1,
              map |-> s.map \o [k \in 1..(RunEnd(words, s.i) - s.i) |-> s.n]])

mergeWithIndexMap(words) ==
    [words |-> mergeOrphanedPunctuation(words),
     indexMap |-> RunIndexLoop(words, [i |-> 1, n |-> 0, map |-> <<>>])]

----------------------------------------------------------------------------
(* Kindle adapter: parseMobiContent *)


\* currentPage++; pageStarts.push(wordIndex); wordsOnCurrentPage = 0
PageBreak(st) ==
    [st EXCEPT !.currentPage = @ + 1,
               !.pageStarts = Append(@, st.wordIndex),
               !.wordsOnCurrentPage = 0]

\* the word's span inside the tags of its formatting
WrapFormatting(span, italic, bold) ==
    IF bold /\ italic
    THEN <<TagItem("strong"), TagItem("em"), span, TagItem("/em"), TagItem("/strong")>>
    ELSE IF bold THEN <<TagItem("strong"), span, TagItem("/strong")>>
    ELSE IF italic THEN <<TagItem("em"), span, TagItem("/em")>>
    ELSE <<span>>

\* words.push, currentChapterHtml.push, wordIndex++, wordsOnCurrentPage++
PushMobiWord(st, mergedText, italic, bold) ==
    [st EXCEPT
        !.words = Append(@, NewWord(mergedText, st.paragraphIndex, st.currentPage,
                                    italic, bold)),
        !.currentChapterHtml =
            @ \o WrapFormatting(SpanItem(st.wordIndex, escapeHtml(mergedText)),
                                italic, bold) \o <<WsItem>>,
        !.wordIndex = @ + 1,
        !.wordsOnCurrentPage = @ + 1]

RECURSIVE MobiTextLoop(_, _, _, _, _, _)
\* the for loop over the raw words of one text node
MobiTextLoop(st, mergeResult, rawIdx, prevMergedIdx, italic, bold) ==
    IF rawIdx >= Len(mergeResult.indexMap) THEN st
    ELSE IF mergeResult.indexMap[rawIdx + 1] # prevMergedIdx
         THEN MobiTextLoop(
                  PushMobiWord(st, mergeResult.words[mergeResult.indexMap[rawIdx + 1] + 1],
                               italic, bold),
                  mergeResult, rawIdx + 1, mergeResult.indexMap[rawIdx + 1], italic, bold)
         ELSE MobiTextLoop(st, mergeResult, rawIdx + 1, mergeResult.indexMap[rawIdx + 1],
                           italic, bold)

\* a text node with the words splitWords
MobiTextNode(st, splitWords, italic, bold) ==
    IF Len(splitWords) > 0
    THEN MobiTextLoop(st, mergeWithIndexMap(splitWords), 0, -1, italic, bold)
    ELSE st

\* chapters.push, chapterStarts.push and chapterContents.push of the chapter being filled
CloseMobiChapter(st) ==
    [st EXCEPT
        !.chapters = Append(@, [wordStart |-> st.currentChapterWordStart,
                                wordEnd |-> st.wordIndex - 1]),
        !.chapterStarts = Append(@, st.currentChapterWordStart),
        !.chapterContents = Append(@,
            [chapterIndex |-> st.currentChapterIndex,
             htmlWithMarkers |-> st.currentChapterHtml,
             wordRange |-> <<st.currentChapterWordStart, st.wordIndex - 1>>])]

\* currentChapterIndex++, the chapter starts at wordIndex with empty markup,
\* and on a new page when the current page has words
BeginMobiChapter(closed) ==
    IF closed.wordsOnCurrentPage > 0
    THEN PageBreak([closed EXCEPT !.currentChapterIndex = @ + 1,
                                  !.currentChapterWordStart = closed.wordIndex,
                                  !.currentChapterHtml = <<>>])
    ELSE [closed EXCEPT !.currentChapterIndex = @ + 1,
                        !.currentChapterWordStart = closed.wordIndex,
                        !.currentChapterHtml = <<>>]

\* a heading that starts a chapter, met when words exist already
StartMobiChapter(st) ==
    BeginMobiChapter(IF st.currentChapterWordStart < st.wordIndex
                     THEN CloseMobiChapter(st) ELSE st)

\* a block element opens: page break check, next paragraph, then
\* paragraphStarts.push(wordIndex) and the opening tag
StartMobiBlock(st, tagName) ==
    [(IF st.wordIndex > 0 /\ Len(st.words) > 0
      THEN [(IF st.wordsOnCurrentPage >= st.targetWordsPerPage
             THEN PageBreak(st) ELSE st)
               EXCEPT !.paragraphIndex = @ + 1]
      ELSE st)
        EXCEPT !.paragraphStarts = Append(@, st.wordIndex),
               !.currentChapterHtml = Append(@, TagItem(tagName))]

\* the element before its children: chapter start, then block start
OpenMobiElement(st, tagName, chapterMatch) ==
    IF tagName \in {"p", "div", "h1", "h2", "h3", "h4", "h5", "h6", "li",
                   "blockquote", "section", "article"}
    THEN StartMobiBlock(IF chapterMatch /\ st.wordIndex > 0
                        THEN StartMobiChapter(st) ELSE st, tagName)
    ELSE IF chapterMatch /\ st.wordIndex > 0 THEN StartMobiChapter(st) ELSE st

\* the element after its children: the closing tag of a block
CloseMobiElement(walked, tagName) ==
    IF tagName \in {"p", "div", "h1", "h2", "h3", "h4", "h5", "h6", "li",
                   "blockquote", "section", "article"}
    THEN [walked EXCEPT !.currentChapterHtml = Append(@, TagItem("/" \o tagName))]
    ELSE walked

RECURSIVE processNode(_, _, _, _, _)
RECURSIVE processNodes(_, _, _, _, _)
\* inChapterScan: the node is one findChapterMarkers visits (all its
\* ancestors are containers), so a heading here is a chapter element
processNode(st, node, italic, bold, inChapterScan) ==
    IF node.tag = "#text"
    THEN MobiTextNode(st, FlatMapSplit(node.toks), italic, bold)
    ELSE IF node.tag \in {"script", "style", "nav", "header", "footer", "aside"} THEN st
    ELSE IF node.tag = "img"
         THEN IF Len(node.toks) > 0
              THEN [st EXCEPT !.currentChapterHtml = Append(@, ImgItem(-1))]
              ELSE st
    ELSE CloseMobiElement(
             processNodes(
                 OpenMobiElement(st, node.tag,
                                 inChapterScan /\ node.tag \in {"h1", "h2", "h3"}),
                 node.kids,
                 italic \/ node.tag \in {"i", "em"},
                 bold \/ node.tag \in {"b", "strong"},
                 inChapterScan /\ node.tag \in {"div", "section", "article", "body"}),
             node.tag)

processNodes(st, nodes, italic, bold, inChapterScan) ==
    IF nodes = <<>> THEN st
    ELSE processNodes(processNode(st, Head(nodes), italic, bold, inChapterScan),
                      Tail(nodes), italic, bold, inChapterScan)

\* "Finalize last chapter"
FinishMobiChapter(walked) ==
    IF walked.wordIndex > walked.currentChapterWordStart
    THEN CloseMobiChapter(walked) ELSE walked

\* "If still no chapters, create one for all content"
FallbackMobiChapter(last) ==
    IF Len(last.chapters) = 0 /\ Len(last.words) > 0
    THEN CloseMobiChapter([last EXCEPT !.currentChapterIndex = 0,
                                       !.currentChapterWordStart = 0])
    ELSE last

\* the value parseMobiContent returns
MobiResult(final) ==
    [document |-> NewDocument(final.words, final.paragraphStarts, final.pageStarts,
                              Len(final.paragraphStarts)),
     chapters |-> final.chapters,
     preview |-> [present |-> TRUE,
                  chapterContents |-> final.chapterContents,
                  chapterStarts |-> final.chapterStarts]]

parseMobiContent(body, targetWordsPerPage) ==
    MobiResult(FallbackMobiChapter(FinishMobiChapter(processNodes(
        [words |-> <<>>, paragraphStarts |-> <<>>, pageStarts |-> <<0>>,
         chapters |-> <<>>, chapterStarts |-> <<>>, chapterContents |-> <<>>,
         wordIndex |-> 0, paragraphIndex |-> 0, currentPage |-> 0,
         wordsOnCurrentPage |-> 0, currentChapterIndex |-> 0,
         currentChapterWordStart |-> 0, currentChapterHtml |-> <<>>,
         targetWordsPerPage |-> targetWordsPerPage],
        body, FALSE, FALSE, TRUE))))

\* the result without preview when the document has no words
WithoutEmptyPreview(r) ==
    IF r.document.totalWords = 0 THEN [r EXCEPT !.preview = NoPreview] ELSE r

\* mobiAdapter.parse on the markup parseMobiFile decoded
mobiAdapterParse(body) ==
    WithoutEmptyPreview(parseMobiContent(body, TargetWordsPerPage))

----------------------------------------------------------------------------
(* Kindle container: decompressPalmDoc, detectImageType and parseMobiFile. *)
(* Bytes are the integers 0..255.                                          *)

RECURSIVE Bitwise(_, _, _, _)
\* the bitwise operation op on the w low bits of a and b
Bitwise(op, a, b, w) ==
    IF w = 0 THEN 0
    ELSE (IF op = "and" THEN (a % 2) * (b % 2)
          ELSE IF op = "or" THEN (IF (a % 2) + (b % 2) > 0 THEN 1 ELSE 0)
          ELSE ((a % 2) + (b % 2)) % 2)
         + 2 * Bitwise(op, a \div 2, b \div 2, w - 1)

\* the value one step of the copy loop pushes: output[pos] for pos >= 0,
\* where reading past the end of the array gives undefined, written -1
CopiedByte(output, distance) ==
    IF Len(output) - distance >= 0
    THEN IF distance > 0 THEN output[Len(output) - distance + 1] ELSE -1
    ELSE 0

RECURSIVE CopyBackStuck(_, _, _, _)
\* the variant of CopyBack that reads the same position in every step
CopyBackStuck(s, distance, length, j) ==
    IF j >= length THEN s
    ELSE CopyBackStuck(
             [s EXCEPT !.output = Append(@, CopiedByte(s.output, distance + j)),
                       !.copies = Append(@,
                           [pos |-> Len(s.output) - (distance + j),
                            size |-> Len(s.output),
                            byte |-> CopiedByte(s.output, distance + j)])],
             distance, length, j + 1)

RECURSIVE CopyBack(_, _, _, _)
\* for (let j = 0; j < length; j++): s holds i, output and the copy steps
\* (pos, the length of output when the step is taken, and the value pushed)
CopyBack(s, distance, length, j) ==
    IF j >= length THEN s
    ELSE CopyBack(
             [s EXCEPT !.output = Append(@, CopiedByte(s.output, distance)),
                       !.copies = Append(@,
                           [pos |-> Len(s.output) - distance,
                            size |-> Len(s.output),
                            byte |-> CopiedByte(s.output, distance)])],
             distance, length, j + 1)

RECURSIVE LiteralRun(_, _, _, _)
\* for (let j = 0; j < byte && i < compressed.length; j++)
LiteralRun(compressed, s, byte, j) ==
    IF j < byte /\ s.i < Len(compressed)
    THEN LiteralRun(compressed,
                    [s EXCEPT !.output = Append(@, compressed[s.i + 1]), !.i = @ + 1],
                    byte, j + 1)
    ELSE s

RECURSIVE DecompressLoop(_, _)
RECURSIVE DecompressByte(_, _, _)
\* the body of the while loop after const byte = compressed[i++]; for a
\* back-reference distance = ((byte & 0x3f) << 8 | next) >> 3 and
\* length = (next & 0x07) + 3
DecompressByte(compressed, s, byte) ==
    IF byte = 0
    THEN DecompressLoop(compressed, [s EXCEPT !.output = Append(@, 0)])
    ELSE IF byte >= 1 /\ byte <= 8
    THEN DecompressLoop(compressed, LiteralRun(compressed, s, byte, 0))
    ELSE IF byte >= 9 /\ byte <= 127
    THEN DecompressLoop(compressed, [s EXCEPT !.output = Append(@, byte)])
    ELSE IF byte >= 128 /\ byte <= 191
    THEN IF s.i >= Len(compressed) THEN s
         ELSE DecompressLoop(compressed,
                  CopyBack([s EXCEPT !.i = @ + 1],
                           Bitwise("or", Bitwise("and", byte, 63, 16) * 256,
                                   compressed[s.i + 1], 16) \div 8,
                           Bitwise("and", compressed[s.i + 1], 7, 16) + 3, 0))
    ELSE DecompressLoop(compressed,
             [s EXCEPT !.output = @ \o <<32, Bitwise("xor", byte, 128, 16)>>])

\* while (i < compressed.length)
DecompressLoop(compressed, s) ==
    IF s.i >= Len(compressed) THEN s
    ELSE DecompressByte(compressed, [s EXCEPT !.i = @ + 1], compressed[s.i + 1])

\* the returned bytes, with the copy steps the back-references took; in
\* new Uint8Array(output) undefined becomes 0 and a number its low 8 bits
decompressPalmDoc(compressed) ==
    [bytes |->
         LET output ==
                 DecompressLoop(compressed, [i |-> 0, output |-> <<>>, copies |-> <<>>]).output
         IN  [k \in 1..Len(output) |-> IF output[k] < 0 THEN 0 ELSE output[k] % 256],
     copies |->
         DecompressLoop(compressed, [i |-> 0, output |-> <<>>, copies |-> <<>>]).copies]

detectImageType(data) ==
    IF Len(data) < 4 THEN "null"
    ELSE IF StartsWith(data, <<255, 216, 255>>) THEN "image/jpeg"
    ELSE IF StartsWith(data, <<137, 80, 78, 71>>) THEN "image/png"
    ELSE IF StartsWith(data, <<71, 73, 70, 56>>) THEN "image/gif"
    ELSE IF StartsWith(data, <<66, 77>>) THEN "image/bmp"
    ELSE "null"

\* A container is given by the fields parseMobiFile reads: byteLength, the
\* record count of the database header, of record 0 the identifier, the
\* compression and encryption codes, the text record count and the first
\* image record (0 when the header is too short to hold one), the record
\* offsets of the database header (recordOffsets[i + 1] is the code's
\* recordOffsets[i]), and the bytes of the records after record 0 (records[i]
\* is what the slice of record i holds when the slice lies inside the file).

\* the message of the error for a container with an encryption code
DrmProtected ==
    "This file is DRM-protected. QuickReader can only open DRM-free Kindle files."

\* throw new Error(message)
Throw(r, message) == [r EXCEPT !.outcome = message]

\* a DataView read or a typed-array view outside the buffer throws a
\* RangeError

\* new Uint8Array(arrayBuffer, recordStart, recordEnd - recordStart) does not
\* throw: the start is inside the buffer, the length is not negative and the
\* view ends inside the buffer
SliceInFile(c, i) ==
    LET recordEnd == IF i + 1 < c.recordCount
                     THEN c.recordOffsets[i + 2] ELSE c.byteLength
    IN  /\ c.recordOffsets[i + 1] <= c.byteLength
        /\ recordEnd - c.recordOffsets[i + 1] >= 0
        /\ recordEnd <= c.byteLength

\* the body of the loop over the text records
ReadTextRecord(c, r, recordData) ==
    IF c.compression = 1
    THEN [r EXCEPT !.fullText = @ \o recordData]
    ELSE IF c.compression = 2
    THEN [r EXCEPT !.fullText = @ \o decompressPalmDoc(recordData).bytes,
                   !.decompressed = @ + 1]
    ELSE IF c.compression = 17480
    THEN Throw(r,
        "HUFF/CDIC compression is not supported. Please convert the file to EPUB using Calibre.")
    ELSE [r EXCEPT !.fullText = @ \o recordData, !.warnings = @ + 1]

RECURSIVE ReadTextRecords(_, _, _)
\* for (let i = 1; i <= textRecordCount && i < recordOffsets.length; i++)
ReadTextRecords(c, r, i) ==
    IF r.outcome # "running" \/ ~(i <= c.textRecordCount /\ i < c.recordCount)
    THEN r
    ELSE IF ~SliceInFile(c, i) THEN Throw(r, "RangeError")
    ELSE ReadTextRecords(c, ReadTextRecord(c, r, c.records[i]), i + 1)

\* firstImageRecord is read only from a record 0 with the MOBI identifier
imageStartRecord(c) ==
    IF c.ident = "MOBI" /\ c.firstImageRecord > 0
    THEN c.firstImageRecord
    ELSE c.textRecordCount + 1

\* URL.createObjectURL and both imageMap.set for a record that is an image
ExtractImage(c, r, i) ==
    IF detectImageType(c.records[i]) # "null"
    THEN [r EXCEPT !.handles = @ + 1,
                   !.imageMap = @ \cup {i - imageStartRecord(c) + 1, i}]
    ELSE r

RECURSIVE ExtractImages(_, _, _)
\* for (let i = imageStartRecord; i < recordOffsets.length; i++)
ExtractImages(c, r, i) ==
    IF r.outcome # "running" \/ i >= c.recordCount THEN r
    ELSE IF ~SliceInFile(c, i) THEN Throw(r, "RangeError")
    ELSE ExtractImages(c, ExtractImage(c, r, i), i + 1)

\* fullText.length === 0, else parseMobiContent is reached
ParseFullText(r) ==
    IF r.outcome # "running" THEN r
    ELSE IF Len(r.fullText) = 0 THEN Throw(r, "No text content found in MOBI file")
    ELSE [r EXCEPT !.outcome = "parsed"]

\* the variant of ReadRecords that looks at the encryption code after the
\* text and image records are read
ReadRecordsLate(c, r) ==
    IF c.encryption # 0
    THEN Throw(ExtractImages(c, ReadTextRecords(c, r, 1), imageStartRecord(c)),
               DrmProtected)
    ELSE ParseFullText(ExtractImages(c, ReadTextRecords(c, r, 1), imageStartRecord(c)))

\* parseMobiFile once record 0 is read
ReadRecords(c, r) ==
    IF c.encryption # 0 THEN Throw(r, DrmProtected)
    ELSE ParseFullText(ExtractImages(c, ReadTextRecords(c, r, 1), imageStartRecord(c)))

MobiStart ==
    [outcome |-> "running", warnings |-> 0, decompressed |-> 0, handles |-> 0,
     imageMap |-> {}, fullText |-> <<>>]

\* how parseMobiFile ends: the message of the error it throws or "parsed",
\* with the number of decompressPalmDoc calls and of display handles made
parseMobiFile(c) ==
    IF c.byteLength < 100 THEN Throw(MobiStart, "Invalid MOBI file: file too small")
    ELSE IF c.recordCount > 0 /\ 74 + 8 * c.recordCount > c.byteLength
    THEN Throw(MobiStart, "RangeError")   \* readPalmHeader reads past the end
    ELSE IF c.recordCount < 2
    THEN Throw(MobiStart, "Invalid MOBI file: not enough records")
    ELSE IF c.recordOffsets[1] + 20 > c.byteLength
    THEN Throw(MobiStart, "RangeError")   \* the identifier lies past the end
    ELSE ReadRecords(c, IF c.ident # "MOBI"
                        THEN [MobiStart EXCEPT !.warnings = @ + 1]
                        ELSE MobiStart)

\* decoder.decode of the text records: the bytes of the records are neither
\* whitespace nor markup, so the text is one text node of one word with a
\* character for every byte
DecodeBody(fullText) == <<Txt(<<[k \in 1..Len(fullText) |-> "a"]>>)>>

\* the catch branch of mobiAdapter.parse
mobiAdapterCatch(message) ==
    [document |-> NewDocument(<<>>, <<>>, <<>>, 0),
     warnings |-> <<message>>,
     extra |-> [fileType |-> "mobi"]]

\* mobiAdapter.parse from the way parseMobiFile ended: r.warnings warnings
\* were pushed when it returned
mobiAdapterResult(r) ==
    IF r.outcome # "parsed" THEN mobiAdapterCatch(r.outcome)
    ELSE IF mobiAdapterParse(DecodeBody(r.fullText)).document.totalWords = 0
    THEN [document |-> mobiAdapterParse(DecodeBody(r.fullText)).document,
          title |-> "title",
          warnings |-> <<"No readable text found. For best results, convert to EPUB using Calibre.">>,
          extra |-> [fileType |-> "mobi"]]
    ELSE [document |-> mobiAdapterParse(DecodeBody(r.fullText)).document,
          title |-> "title",
          warnings |-> [k \in 1..r.warnings |-> "warning"],
          preview |-> mobiAdapterParse(DecodeBody(r.fullText)).preview,
          extra |-> [fileType |-> "mobi"]]

----------------------------------------------------------------------------
(* EPUB parser: paragraph blocks, word markers and parseEpub *)

AllChars(word, S) == Len(word) > 0 /\ \A i \in 1..Len(word) : word[i] \in S

isDecorativePunctuation(word) ==
    \/ AllChars(word, {"*"})
    \/ AllChars(word, {"-", "_"})
    \/ (Len(word) >= 4 /\ AllChars(word, {"."}))
    \/ AllChars(word, {"~"})

\* the words of one text node: split on whitespace and dashes, decorative
\* punctuation dropped
TextNodeWords(toks) ==
    SelectSeq(FlatMapSplit(toks), LAMBDA w : ~isDecorativePunctuation(w))

ElementKids(nodes) == SelectSeq(nodes, LAMBDA n : n.tag # "#text")

\* the words ws of a text node with its formatting
FormattedWords(ws, italic, bold) ==
    [k \in 1..Len(ws) |-> [text |-> ws[k], italic |-> italic, bold |-> bold]]

RECURSIVE WalkWords(_, _, _, _)
RECURSIVE WalkWordsAll(_, _, _, _)
\* the formatted words below a node, in document order, elements with a
\* tag in skipTags left out
WalkWords(node, italic, bold, skipTags) ==
    IF node.tag = "#text"
    THEN FormattedWords(TextNodeWords(node.toks), italic, bold)
    ELSE IF node.tag \in skipTags THEN <<>>
    ELSE WalkWordsAll(node.kids, italic \/ node.tag \in {"i", "em"},
                      bold \/ node.tag \in {"b", "strong"}, skipTags)

WalkWordsAll(nodes, italic, bold, skipTags) ==
    IF nodes = <<>> THEN <<>>
    ELSE WalkWords(Head(nodes), italic, bold, skipTags)
             \o WalkWordsAll(Tail(nodes), italic, bold, skipTags)

leafBlockTags == {"p", "h1", "h2", "h3", "h4", "h5", "h6", "li", "blockquote"}
containerBlockTags == {"div", "section", "article", "aside", "main"}

\* blocks.push({ words }) when there are words
PushBlock(words) == IF Len(words) > 0 THEN << words >> ELSE <<>>

\* extractWordsFromNode(el, false, false) as a block
BlockOf(el) == PushBlock(WalkWords(el, FALSE, FALSE, {"script", "style", "svg"}))

RECURSIVE processElement(_)
RECURSIVE processElements(_)
\* the blocks processElement pushes for el
processElement(el) ==
    IF el.tag \in {"script", "style", "svg", "nav", "header", "footer"} THEN <<>>
    ELSE IF el.tag \in leafBlockTags THEN BlockOf(el)
    ELSE IF el.tag \in containerBlockTags
         THEN IF \E i \in 1..Len(ElementKids(el.kids)) :
                     ElementKids(el.kids)[i].tag \in leafBlockTags \cup containerBlockTags
              THEN processElements(ElementKids(el.kids))
              ELSE BlockOf(el)
    ELSE IF Len(ElementKids(el.kids)) = 0 THEN BlockOf(el)
         ELSE processElements(ElementKids(el.kids))

processElements(els) ==
    IF els = <<>> THEN <<>>
    ELSE processElement(Head(els)) \o processElements(Tail(els))

\* "If no blocks found, fall back to treating entire element as one block"
BlocksOrFallback(blocks, body) ==
    IF Len(blocks) = 0
    THEN PushBlock(WalkWordsAll(body, FALSE, FALSE, {"script", "style"}))
    ELSE blocks

\* body: the child nodes of the content element
extractParagraphBlocks(body) ==
    BlocksOrFallback(processElements(ElementKids(body)), body)

RECURSIVE extractRawWordsFromElement(_, _)
\* the raw words the tree walker meets below nodes, images as placeholders;
\* inSvg: an ancestor is an svg element
extractRawWordsFromElement(nodes, inSvg) ==
    IF nodes = <<>> THEN <<>>
    ELSE (IF Head(nodes).tag = "#text"
          THEN IF inSvg THEN <<>>
               ELSE [k \in 1..Len(TextNodeWords(Head(nodes).toks)) |->
                        [text |-> TextNodeWords(Head(nodes).toks)[k], isImage |-> FALSE]]
          ELSE IF Head(nodes).tag \in {"script", "style"} THEN <<>>
          ELSE (IF Head(nodes).tag \in {"img", "image", "svg"}
                THEN <<[text |-> <<"[IMAGE]">>, isImage |-> TRUE]>> ELSE <<>>)
               \o extractRawWordsFromElement(Head(nodes).kids,
                                             inSvg \/ Head(nodes).tag = "svg"))
         \o extractRawWordsFromElement(Tail(nodes), inSvg)

\* one step of the loop for a text word whose merged index is mergedTextIdx
RawToMergedText(s, mergedTextIdx) ==
    IF mergedTextIdx # s.prevMergedTextIdx
    THEN [s EXCEPT !.finalRawToMerged = Append(@, s.finalIdx),
                   !.lastTextWordIdx = s.finalIdx,
                   !.finalIdx = @ + 1,
                   !.prevMergedTextIdx = mergedTextIdx,
                   !.textIdx = @ + 1,
                   !.rawIdx = @ + 1]
    ELSE [s EXCEPT !.finalRawToMerged = Append(@, s.finalIdx - 1),
                   !.lastTextWordIdx = s.finalIdx - 1,
                   !.textIdx = @ + 1,
                   !.rawIdx = @ + 1]

\* the body of the for loop that fills finalRawToMerged
RawToMergedStep(raw, indexMap, s) ==
    IF raw[s.rawIdx + 1].isImage
    THEN [s EXCEPT !.finalRawToMerged = Append(@, s.lastTextWordIdx),
                   !.rawIdx = @ + 1]
    ELSE RawToMergedText(s, indexMap[s.textIdx + 1])

RECURSIVE RawToMergedLoop(_, _, _)
\* the for loop: s holds rawIdx, finalIdx, prevMergedTextIdx, textIdx,
\* lastTextWordIdx and the array
RawToMergedLoop(raw, indexMap, s) ==
    IF s.rawIdx >= Len(raw) THEN s.finalRawToMerged
    ELSE RawToMergedLoop(raw, indexMap, RawToMergedStep(raw, indexMap, s))

\* the texts of raw entries
RawTexts(entries) == [k \in 1..Len(entries) |-> entries[k].text]

\* the result of computeMergedIndices from the raw words and their merge
MergedIndices(raw, mergeResult, startWordIndex) ==
    [mergedWords |-> mergeResult.words,
     rawToMergedIndex |-> RawToMergedLoop(raw, mergeResult.indexMap,
         [rawIdx |-> 0, finalIdx |-> startWordIndex, prevMergedTextIdx |-> -1,
          textIdx |-> 0, lastTextWordIdx |-> startWordIndex,
          finalRawToMerged |-> <<>>]),
     startWordIndex |-> startWordIndex]

\* text words merged, images indexed by the last text word
\* (the second loop of the function stores startWordIndex where
\* startWordIndex already is, so it changes nothing)
computeMergedIndices(body, startWordIndex) ==
    MergedIndices(extractRawWordsFromElement(body, FALSE),
                  mergeWithIndexMap(RawTexts(SelectSeq(
                      extractRawWordsFromElement(body, FALSE), LAMBDA r : ~r.isImage))),
                  startWordIndex)

\* rawToMergedIndex[rawWordIndex] ?? rawWordIndex + startWordIndex
MergedIdxAt(m, rawWordIndex) ==
    IF rawWordIndex < Len(m.rawToMergedIndex)
    THEN m.rawToMergedIndex[rawWordIndex + 1]
    ELSE rawWordIndex + m.startWordIndex

\* fragment.appendChild of the items
AppendHtml(c, items) == [c EXCEPT !.html = @ \o items]

\* the item of one sub-word and the ' ' after it when it is not the last;
\* c holds html, rawWordIndex and the loop indices i (of MarkParts) and j
\* (of MarkSubWords)
MarkSubWord(subWords, m, c) ==
    IF isDecorativePunctuation(subWords[c.j])
    THEN [c EXCEPT !.html = @ \o <<TextItem(subWords[c.j])>>
                              \o (IF c.j < Len(subWords) THEN <<WsItem>> ELSE <<>>),
                   !.j = @ + 1]
    ELSE [c EXCEPT !.html = @ \o <<SpanItem(MergedIdxAt(m, c.rawWordIndex),
                                             subWords[c.j])>>
                              \o (IF c.j < Len(subWords) THEN <<WsItem>> ELSE <<>>),
                   !.rawWordIndex = @ + 1,
                   !.j = @ + 1]

RECURSIVE MarkSubWords(_, _, _)
\* the spans of one whitespace-separated part
MarkSubWords(subWords, m, c) ==
    IF c.j > Len(subWords) THEN c
    ELSE MarkSubWords(subWords, m, MarkSubWord(subWords, m, c))

\* one whitespace-separated part and the ' ' after it when it is not the last
MarkPart(parts, m, c) ==
    AppendHtml(MarkSubWords(splitOnDashes(parts[c.i]), m, [c EXCEPT !.j = 1]),
               IF c.i < Len(parts) THEN <<WsItem>> ELSE <<>>)

RECURSIVE MarkParts(_, _, _)
\* the fragment that replaces one text node
MarkParts(parts, m, c) ==
    IF c.i > Len(parts) THEN c
    ELSE MarkParts(parts, m, [MarkPart(parts, m, c) EXCEPT !.i = @ + 1])

RECURSIVE VerbatimHtml(_)
\* the markup of nodes the walker does not touch
VerbatimHtml(nodes) ==
    IF nodes = <<>> THEN <<>>
    ELSE (IF Head(nodes).tag = "#text"
          THEN [k \in 1..Len(Head(nodes).toks) |-> TextItem(Head(nodes).toks[k])]
          ELSE <<TagItem(Head(nodes).tag)>> \o VerbatimHtml(Head(nodes).kids)
                   \o <<TagItem("/" \o Head(nodes).tag)>>)
         \o VerbatimHtml(Tail(nodes))

\* the closing tag of an element that has one
CloseTag(c, tag) ==
    IF tag = "img" THEN c ELSE AppendHtml(c, <<TagItem("/" \o tag)>>)

RECURSIVE MarkNode(_, _, _, _)
RECURSIVE MarkNodes(_, _, _, _)
\* the markup of one node of the clone after the walk; an image gets
\* setAttribute('data-word-index', mergedIdx) and rawWordIndex++
MarkNode(node, inSvg, m, c) ==
    IF node.tag = "#text"
    THEN IF inSvg \/ Len(node.toks) = 0
         THEN AppendHtml(c, VerbatimHtml(<<node>>))
         ELSE MarkParts(node.toks, m, [c EXCEPT !.i = 1])
    ELSE IF node.tag \in {"script", "style"}
         THEN AppendHtml(c, VerbatimHtml(<<node>>))
    ELSE IF node.tag \in {"img", "image", "svg"}
         THEN CloseTag(MarkNodes(node.kids, inSvg \/ node.tag = "svg", m,
                           [c EXCEPT !.html = Append(@, ImgItem(MergedIdxAt(m, c.rawWordIndex))),
                                     !.rawWordIndex = @ + 1]),
                       node.tag)
    ELSE CloseTag(MarkNodes(node.kids, inSvg, m, AppendHtml(c, <<TagItem(node.tag)>>)),
                  node.tag)

\* the clone's markup after every accepted node was processed
MarkNodes(nodes, inSvg, m, c) ==
    IF nodes = <<>> THEN c
    ELSE MarkNodes(Tail(nodes), inSvg, m, MarkNode(Head(nodes), inSvg, m, c))

RECURSIVE ImageSrcCount(_)
\* imageSrcs.length: the img and image elements (each has a source)
ImageSrcCount(nodes) ==
    IF nodes = <<>> THEN 0
    ELSE (IF Head(nodes).tag \in {"img", "image"} THEN 1 ELSE 0)
             + ImageSrcCount(Head(nodes).kids) + ImageSrcCount(Tail(nodes))

\* the result of injectWordMarkers from the merged indices m
MarkedHtmlResult(body, m) ==
    [html |-> MarkNodes(body, FALSE, m,
                       [html |-> <<>>, rawWordIndex |-> 0, i |-> 0, j |-> 0]).html,
     wordCount |-> Len(m.mergedWords),
     imageSrcs |-> ImageSrcCount(body)]

injectWordMarkers(body, startWordIndex) ==
    MarkedHtmlResult(body, computeMergedIndices(body, startWordIndex))

\* replaceImageUrls rewrites the source of every image and leaves its
\* data-word-index
replaceImageUrls(html) ==
    [k \in 1..Len(html) |->
        IF html[k].k = "img" THEN [html[k] EXCEPT !.text = <<"src">>] ELSE html[k]]

\* the words ws of one block, each with its localParagraphIdx
WordsWithMeta(ws, localParagraphIdx) ==
    [k \in 1..Len(ws) |->
        [text |-> ws[k].text, italic |-> ws[k].italic, bold |-> ws[k].bold,
         localParagraphIdx |-> localParagraphIdx]]

RECURSIVE AllChapterWords(_, _)
\* the words of the blocks, each with its localParagraphIdx
AllChapterWords(paragraphBlocks, localParagraphIdx) ==
    IF paragraphBlocks = <<>> THEN <<>>
    ELSE WordsWithMeta(Head(paragraphBlocks), localParagraphIdx)
             \o AllChapterWords(Tail(paragraphBlocks), localParagraphIdx + 1)

\* words.push of a merged word; wordIndex++; wordsOnCurrentPage++
PushEpubWord(started, mergedText, wordMeta) ==
    [started EXCEPT
        !.words = Append(@, NewWord(mergedText, started.paragraphIndex,
                                    started.currentPage, wordMeta.italic, wordMeta.bold)),
        !.wordIndex = @ + 1,
        !.wordsOnCurrentPage = @ + 1]

\* paragraphIndex++ and the page break check "after each paragraph"
NextParagraph(pushed) ==
    IF pushed.wordsOnCurrentPage >= pushed.targetWordsPerPage
    THEN PageBreak([pushed EXCEPT !.paragraphIndex = @ + 1])
    ELSE [pushed EXCEPT !.paragraphIndex = @ + 1]

\* the loop body for a raw word that starts a new merged word; l holds the
\* loop variables and st, the state of parseEpub
EmitWord(l, mergedText, wordMeta) ==
    IF wordMeta.localParagraphIdx # l.prevLocalParagraphIdx
    THEN IF l.prevLocalParagraphIdx # -1
         THEN NextParagraph(PushEpubWord([l.st EXCEPT !.paragraphStarts = Append(@, l.st.wordIndex)], mergedText, wordMeta))
         ELSE PushEpubWord([l.st EXCEPT !.paragraphStarts = Append(@, l.st.wordIndex)], mergedText, wordMeta)
    ELSE IF l.prevMergedIdx = -1
         THEN PushEpubWord([l.st EXCEPT !.paragraphStarts = Append(@, l.st.wordIndex)], mergedText, wordMeta)
         ELSE PushEpubWord(l.st, mergedText, wordMeta)

\* the body of the for loop over allChapterWords; l holds rawIdx,
\* prevMergedIdx, prevLocalParagraphIdx and st
EmitStep(allChapterWords, mergeResult, l) ==
    IF mergeResult.indexMap[l.rawIdx + 1] = l.prevMergedIdx
    THEN [l EXCEPT !.rawIdx = @ + 1,
                   !.prevLocalParagraphIdx =
                       allChapterWords[l.rawIdx + 1].localParagraphIdx]
    ELSE [rawIdx |-> l.rawIdx + 1,
          prevMergedIdx |-> mergeResult.indexMap[l.rawIdx + 1],
          prevLocalParagraphIdx |-> allChapterWords[l.rawIdx + 1].localParagraphIdx,
          st |-> EmitWord(l, mergeResult.words[mergeResult.indexMap[l.rawIdx + 1] + 1],
                          allChapterWords[l.rawIdx + 1])]

RECURSIVE EmitLoop(_, _, _)
\* the for loop and the paragraphIndex++ after it
EmitLoop(allChapterWords, mergeResult, l) ==
    IF l.rawIdx >= Len(allChapterWords)
    THEN IF l.prevLocalParagraphIdx # -1
         THEN [l.st EXCEPT !.paragraphIndex = @ + 1] ELSE l.st
    ELSE EmitLoop(allChapterWords, mergeResult,
                  EmitStep(allChapterWords, mergeResult, l))

\* "Apply punctuation merging across all text words in this chapter"
EmitChapterWords(begun, allChapterWords) ==
    IF Len(allChapterWords) > 0
    THEN EmitLoop(allChapterWords, mergeWithIndexMap(RawTexts(allChapterWords)),
                  [rawIdx |-> 0, prevMergedIdx |-> -1, prevLocalParagraphIdx |-> -1,
                   st |-> begun])
    ELSE begun

\* the placeholder word of a chapter that has images and no text
ImagePlaceholder(st) ==
    PageBreak([st EXCEPT
        !.paragraphStarts = Append(@, st.wordIndex),
        !.words = Append(@, NewWord(<<>>, st.paragraphIndex, st.currentPage, FALSE, FALSE)),
        !.wordIndex = @ + 1,
        !.wordsOnCurrentPage = @ + 1,
        !.paragraphIndex = @ + 1])

\* the variant of PushChapter that ends the chapter at wordIndex
PushChapterLong(st, chapterStartWord) ==
    [st EXCEPT !.chapters = Append(@, [wordStart |-> chapterStartWord,
                                       wordEnd |-> st.wordIndex])]

\* chapters.push at the end of the loop body
PushChapter(st, chapterStartWord) ==
    [st EXCEPT !.chapters = Append(@, [wordStart |-> chapterStartWord,
                                       wordEnd |-> st.wordIndex - 1])]

\* the placeholder when the item added no words and has images
PlaceImages(emitted, chapterStartWord, markedResult) ==
    IF emitted.wordIndex - chapterStartWord = 0 /\ markedResult.imageSrcs > 0
    THEN ImagePlaceholder(emitted) ELSE emitted

\* chapterContents.push, then chapters.push
StoreChapter(placed, chapterStartWord, markedResult) ==
    PushChapter(
        [placed EXCEPT !.chapterContents = Append(@,
            [chapterIndex |-> Len(placed.chapters),
             htmlWithMarkers |-> replaceImageUrls(markedResult.html),
             wordRange |-> <<chapterStartWord,
                             IF placed.wordIndex > chapterStartWord
                             THEN placed.wordIndex - 1 ELSE chapterStartWord>>])],
        chapterStartWord)

\* the try block for content that loaded
EpubContent(begun, chapterStartWord, paragraphBlocks, markedResult) ==
    StoreChapter(
        PlaceImages(EmitChapterWords(begun, AllChapterWords(paragraphBlocks, 0)),
                    chapterStartWord, markedResult),
        chapterStartWord, markedResult)

\* the variant of EpubSection that loses what the earlier items produced
\* when the section or its contents are missing
EpubSectionAbort(begun, chapterStartWord, spineItem) ==
    IF spineItem.load \in {"nosection", "nocontents"}
    THEN [begun EXCEPT !.parseWarnings = @ + 1, !.words = <<>>, !.wordIndex = 0]
    ELSE IF spineItem.load = "throws"
    THEN PushChapter([begun EXCEPT !.parseWarnings = @ + 1], chapterStartWord)
    ELSE EpubContent(begun, chapterStartWord,
                     extractParagraphBlocks(spineItem.body),
                     injectWordMarkers(spineItem.body, chapterStartWord))

\* the loop body after chapterStarts.push(chapterStartWord)
EpubSection(begun, chapterStartWord, spineItem) ==
    IF spineItem.load \in {"nosection", "nocontents"}
    THEN [begun EXCEPT !.parseWarnings = @ + 1]
    ELSE IF spineItem.load = "throws"
    THEN PushChapter([begun EXCEPT !.parseWarnings = @ + 1], chapterStartWord)
    ELSE EpubContent(begun, chapterStartWord,
                     extractParagraphBlocks(spineItem.body),
                     injectWordMarkers(spineItem.body, chapterStartWord))

\* const chapterStartWord = wordIndex; chapterStarts.push(chapterStartWord)
BeginEpubChapter(paged, spineItem) ==
    EpubSection([paged EXCEPT !.chapterStarts = Append(@, paged.wordIndex)],
                paged.wordIndex, spineItem)

\* one iteration of the loop over the spine items
EpubItem(st, spineItem) ==
    BeginEpubChapter(IF st.wordIndex > 0 /\ st.wordsOnCurrentPage > 0
                     THEN PageBreak(st) ELSE st,
                     spineItem)

RECURSIVE EpubSpineLoop(_, _)
EpubSpineLoop(st, spineItems) ==
    IF spineItems = <<>> THEN st
    ELSE EpubSpineLoop(EpubItem(st, Head(spineItems)), Tail(spineItems))

\* the value parseEpub returns
EpubResult(st) ==
    [words |-> st.words, paragraphStarts |-> st.paragraphStarts,
     pageStarts |-> st.pageStarts, chapterStarts |-> st.chapterStarts,
     chapters |-> st.chapters, chapterContents |-> st.chapterContents,
     totalWords |-> Len(st.words), totalParagraphs |-> st.paragraphIndex,
     totalPages |-> Len(st.pageStarts), parseWarnings |-> st.parseWarnings]

parseEpub(spineItems, targetWordsPerPage) ==
    EpubResult(EpubSpineLoop(
        [words |-> <<>>, paragraphStarts |-> <<>>, pageStarts |-> <<0>>,
         chapters |-> <<>>, chapterStarts |-> <<>>, chapterContents |-> <<>>,
         parseWarnings |-> IF Len(spineItems) = 0 THEN 1 ELSE 0,
         wordIndex |-> 0, paragraphIndex |-> 0, currentPage |-> 0,
         wordsOnCurrentPage |-> 0, targetWordsPerPage |-> targetWordsPerPage],
        spineItems))

\* the adapter result made of the value r of parseEpub
EpubAdapterResult(r) ==
    [document |-> NewDocument(r.words, r.paragraphStarts, r.pageStarts,
                              r.totalParagraphs),
     chapters |-> r.chapters,
     preview |-> [present |-> TRUE,
                  chapterContents |-> r.chapterContents,
                  chapterStarts |-> r.chapterStarts]]

\* epubAdapter.parse: the document of parseEpub with its chapter markup as
\* the preview
epubAdapterParse(spineItems) ==
    EpubAdapterResult(parseEpub(spineItems, TargetWordsPerPage))

----------------------------------------------------------------------------
(* parseFile: post-processing of the adapter's result *)

minWordsPerPage == 20

\* the variant of NonEmptyCount that counts the words with empty text too
NonEmptyCountAll(words, pageStart, pageEnd) ==
    Cardinality({i \in pageStart..pageEnd : i < Len(words)})

\* number of words[i] with pageStart <= i <= pageEnd whose trimmed text is not empty
NonEmptyCount(words, pageStart, pageEnd) ==
    Cardinality({i \in pageStart..pageEnd : i < Len(words) /\ Len(words[i + 1].text) > 0})

RECURSIVE MergePagesLoop(_, _, _, _, _)
\* the for loop over pageIdx that builds newPageStarts
MergePagesLoop(words, pageStarts, pageIdx, newPageStarts, currentMergedWordCount) ==
    IF pageIdx >= Len(pageStarts) THEN newPageStarts
    ELSE LET pageStart == pageStarts[pageIdx + 1]
             pageEnd == IF pageIdx + 1 < Len(pageStarts)
                        THEN pageStarts[pageIdx + 2] - 1 ELSE Len(words) - 1
             count == currentMergedWordCount + NonEmptyCount(words, pageStart, pageEnd)
         IN  IF count >= minWordsPerPage /\ pageIdx + 1 < Len(pageStarts)
             THEN MergePagesLoop(words, pageStarts, pageIdx + 1,
                                 Append(newPageStarts, pageStarts[pageIdx + 2]), 0)
             ELSE MergePagesLoop(words, pageStarts, pageIdx + 1, newPageStarts, count)

\* the page a word index falls on: the last p with i >= newPageStarts[p], else 0
NewPageIdx(newPageStarts, i) ==
    LET ps == {p \in 0..(Len(newPageStarts) - 1) : i >= newPageStarts[p + 1]}
    IN  IF ps = {} THEN 0 ELSE CHOOSE p \in ps : \A r \in ps : r <= p

\* first post-processing step: merge tiny pages
MergeTinyPages(document) ==
    IF Len(document.pageStarts) > 1 /\ Len(document.words) > 0
    THEN LET newPageStarts == MergePagesLoop(document.words, document.pageStarts, 0, <<0>>, 0)
         IN  IF Len(newPageStarts) < Len(document.pageStarts)
             THEN [document EXCEPT
                     !.words = [k \in 1..Len(document.words) |->
                                   [document.words[k] EXCEPT
                                       !.pageIndex = NewPageIdx(newPageStarts, k - 1)]],
                     !.pageStarts = newPageStarts,
                     !.totalPages = Len(newPageStarts)]
             ELSE document
    ELSE document

\* indexMap[k] = v, the array growing when k is past its end
SetIndex(indexMap, k, v) ==
    IF k < Len(indexMap) THEN [indexMap EXCEPT ![k + 1] = v]
    ELSE indexMap \o [j \in 1..(k - Len(indexMap)) |-> -1] \o <<v>>

RECURSIVE ConsumeRun(_, _, _, _, _)
\* the inner while loop: c holds consumed, concat and indexMap
ConsumeRun(wordTexts, mergedText, srcIdx, newIdx, c) ==
    IF ~(srcIdx + c.consumed < Len(wordTexts) /\ c.consumed < 4) THEN c
    ELSE LET nextConcat == c.concat \o wordTexts[srcIdx + c.consumed + 1]
         IN  IF nextConcat = mergedText
             THEN [c EXCEPT
                     !.indexMap = [k \in 1..Len(@) |->
                         IF k - 1 - srcIdx \in 1..c.consumed THEN newIdx ELSE @[k]],
                     !.consumed = @ + 1]
             ELSE IF StartsWith(mergedText, nextConcat)
                  THEN ConsumeRun(wordTexts, mergedText, srcIdx, newIdx,
                          [c EXCEPT !.concat = nextConcat,
                                    !.indexMap = SetIndex(@, srcIdx + c.consumed, newIdx),
                                    !.consumed = @ + 1])
                  ELSE c

RECURSIVE RebuildLoop(_, _, _, _)
\* for (const mergedText of mergedTexts): r holds newWords, indexMap and
\* srcIdx; past the end of words {...words[srcIdx]} is a word without
\* properties
RebuildLoop(words, mergedTexts, newIdx, r) ==
    IF newIdx >= Len(mergedTexts) THEN r
    ELSE LET mergedText == mergedTexts[newIdx + 1]
             wordTexts == TextsOf(words)
             c == ConsumeRun(wordTexts, mergedText, r.srcIdx, newIdx,
                     [consumed |-> 1,
                      concat |-> IF r.srcIdx < Len(wordTexts)
                                 THEN wordTexts[r.srcIdx + 1] ELSE <<>>,
                      indexMap |-> SetIndex(r.indexMap, r.srcIdx, newIdx)])
         IN  RebuildLoop(words, mergedTexts, newIdx + 1,
                [newWords |-> Append(r.newWords,
                                 [(IF r.srcIdx < Len(words) THEN words[r.srcIdx + 1]
                                   ELSE NewWord(<<>>, -1, -1, FALSE, FALSE))
                                      EXCEPT !.text = mergedText]),
                 indexMap |-> c.indexMap,
                 srcIdx |-> r.srcIdx + c.consumed])

\* newWords and indexMap as parseFile builds them from the merged texts
Rebuild(words, mergedTexts) ==
    RebuildLoop(words, mergedTexts, 0,
        [newWords |-> <<>>, indexMap |-> [k \in 1..Len(words) |-> -1], srcIdx |-> 0])

\* the callback of html.replace(/data-word-index="(\d+)"/g, ...)
RemapIndex(indexMap, oldIndex) ==
    IF oldIndex >= 0 /\ oldIndex < Len(indexMap) /\ indexMap[oldIndex + 1] >= 0
    THEN indexMap[oldIndex + 1] ELSE oldIndex

IsSpan(item) == item.k = "span"

\* position of the first item after h[1] that is not whitespace, 0 if none
NextNonSpace(h) ==
    LET js == {j \in 2..Len(h) : h[j].k # "ws"}
    IN  IF js = {} THEN 0 ELSE CHOOSE j \in js : \A r \in js : j <= r

RECURSIVE CoalescePass(_)
\* one html.replace(/<span ..N..>text</span>\s*<span ..N..>text</span>/g, ...):
\* leftmost, non-overlapping pairs of spans with the same index become one
CoalescePass(h) ==
    IF h = <<>> THEN <<>>
    ELSE LET j == NextNonSpace(h)
         IN  IF IsSpan(h[1]) /\ j > 0 /\ IsSpan(h[j]) /\ h[j].idx = h[1].idx
             THEN <<[h[1] EXCEPT !.text = @ \o h[j].text]>>
                      \o CoalescePass(SubSeq(h, j + 1, Len(h)))
             ELSE <<h[1]>> \o CoalescePass(Tail(h))

RECURSIVE Coalesce(_)
\* while (prevHtml !== html) { prevHtml = html; html = html.replace(...) }
Coalesce(h) ==
    LET next == CoalescePass(h) IN IF next = h THEN h ELSE Coalesce(next)

\* the index attributes of the markup rewritten through indexMap
RemapHtml(html, indexMap) ==
    [k \in 1..Len(html) |->
        IF html[k].k \in {"span", "img"} /\ html[k].idx >= 0
        THEN [html[k] EXCEPT !.idx = RemapIndex(indexMap, @)]
        ELSE html[k]]

\* endNew: the last mapped index from endOld down to startOld, else startNew
LastMapped(indexMap, startOld, endOld, startNew) ==
    LET is == {i \in startOld..endOld :
                  i >= 0 /\ i < Len(indexMap) /\ indexMap[i + 1] >= 0}
    IN  IF is = {} THEN startNew
        ELSE indexMap[(CHOOSE i \in is : \A r \in is : r <= i) + 1]

\* the callback of chapterContents.map
RemapChapter(chapter, indexMap) ==
    LET startOld == chapter.wordRange[1]
        endOld == chapter.wordRange[2]
        startNew == IF startOld >= 0 /\ startOld < Len(indexMap)
                    THEN indexMap[startOld + 1] ELSE 0
    IN  [chapter EXCEPT
            !.htmlWithMarkers = Coalesce(RemapHtml(@, indexMap)),
            !.wordRange = <<startNew, LastMapped(indexMap, startOld, endOld, startNew)>>]

\* the preview rewritten through indexMap, when the result has one
RemapPreview(preview, indexMap) ==
    IF preview.present
    THEN [preview EXCEPT
            !.chapterContents = [k \in 1..Len(@) |-> RemapChapter(@[k], indexMap)],
            !.chapterStarts = [k \in 1..Len(@) |-> RemapIndex(indexMap, @[k])]]
    ELSE preview

\* second post-processing step: merge orphaned punctuation over the whole document
RemergePunctuation(res) ==
    IF Len(res.document.words) > 0
    THEN LET wordTexts == TextsOf(res.document.words)
             mergedTexts == mergeOrphanedPunctuation(wordTexts)
         IN  IF Len(mergedTexts) # Len(wordTexts)
             THEN LET r == Rebuild(res.document.words, mergedTexts)
                  IN  [res EXCEPT
                          !.document = [@ EXCEPT !.words = r.newWords,
                                                 !.totalWords = Len(r.newWords)],
                          !.preview = RemapPreview(@, r.indexMap)]
             ELSE res
    ELSE res

\* parseFile after `await adapter.parse(file)`
PostProcess(res) ==
    RemergePunctuation([res EXCEPT !.document = MergeTinyPages(@)])

----------------------------------------------------------------------------
(* The word segmenter applied to bounded inputs *)

SplitAlphabet == {"a", "-", "em", "."}
MergeTokens == {<<>>, <<"a">>, <<"(">>, <<")">>, <<"q">>, <<".">>, <<"(", "a">>}

NoResult ==
    [document |-> NewDocument(<<>>, <<>>, <<>>, 0), chapters |-> <<>>, preview |-> NoPreview]
NoFile == [format |-> "none"]

ParseIdle ==
    /\ parsePc = "idle"
    /\ file = NoFile
    /\ adapterResult = NoResult
    /\ idxMap = <<>>
    /\ parseResult = NoResult

NoPalm == [bytes |-> <<>>, copies |-> <<>>]
NoContainer == [byteLength |-> 0]
NoMobiResult == [warnings |-> <<>>]

KindleIdle ==
    /\ kindlePc = "idle"
    /\ packed = <<>>
    /\ palm = NoPalm
    /\ container = NoContainer
    /\ mobiFile = MobiStart
    /\ mobiResult = NoMobiResult

SegmenterIdle ==
    /\ segPc = "idle"
    /\ token = <<>>
    /\ tokens = <<>>
    /\ wordList = <<>>
    /\ merged = <<>>

FileKeys == {"a.txt_1", "b.txt_2"}
NoDocument == [words |-> <<>>]     \* stands for document: null
NoTimer == 0                       \* stands for playbackInterval: null
NoProgress == 0 - 1                \* no saved position under a file key
NoLoad == [fileKey |-> ""]

\* initialState of the document store, of the reader store, and empty storage
ReaderIdle ==
    /\ docStore = [loading |-> FALSE, error |-> FALSE, fileKey |-> "",
                   document |-> NoDocument]
    /\ reader = [wordIndex |-> 0, isPlaying |-> FALSE, hasStarted |-> FALSE,
                 lastReadIndex |-> NoProgress]
    /\ playbackInterval = NoTimer
    /\ timers = {}
    /\ progress = [k \in FileKeys |-> NoProgress]
    /\ loadingFile = NoLoad

InitSegmenter ==
    /\ segPc \in {"splitOnDashes", "mergeOrphanedPunctuation"}
    /\ token \in IF segPc = "splitOnDashes"
                 THEN SeqsUpTo(SplitAlphabet, MaxTokenLen) ELSE {<<>>}
    /\ wordList \in IF segPc = "mergeOrphanedPunctuation"
                    THEN SeqsUpTo(MergeTokens, MaxWords) ELSE {<<>>}
    /\ tokens = <<>>
    /\ merged = <<>>
    /\ ParseIdle
    /\ KindleIdle
    /\ ReaderIdle

SplitOnDashes ==
    /\ segPc = "splitOnDashes"
    /\ tokens' = splitOnDashes(token)
    /\ segPc' = "splitReturned"
    /\ UNCHANGED <<token, wordList, merged>>
    /\ UNCHANGED parseVars
    /\ UNCHANGED kindleVars
    /\ UNCHANGED readerVars

MergeOrphanedPunctuation ==
    /\ segPc = "mergeOrphanedPunctuation"
    /\ merged' = mergeOrphanedPunctuation(wordList)
    /\ segPc' = "mergeReturned"
    /\ UNCHANGED <<token, wordList, tokens>>
    /\ UNCHANGED parseVars
    /\ UNCHANGED kindleVars
    /\ UNCHANGED readerVars

NextSegmenter == SplitOnDashes \/ MergeOrphanedPunctuation

SpecSegmenter == InitSegmenter /\ [][NextSegmenter]_vars

----------------------------------------------------------------------------
(* parseFile applied to bounded files *)

\* n times the word "a"
WordsA(n) == [k \in 1..n |-> <<"a">>]

\* one word, a closing and an opening token, a word and a closing token, a
\* rule of hyphens, and half of the words of a full page
ParagraphKinds ==
    {<< <<"a">> >>, << <<".">> >>, << <<"(">> >>, << <<"a">>, <<".">> >>,
     << <<"-", "-", "-">> >>, WordsA(minWordsPerPage \div 2)}

TextFiles ==
    {[format |-> "text", paragraphs |-> ps] : ps \in SeqsUpTo(ParagraphKinds, MaxParagraphs)}

MobiNodeKinds ==
    {El("p", <<Txt(<< <<"a">> >>)>>),
     El("p", <<Txt(<< <<".">> >>)>>),
     El("h1", <<Txt(<< <<"a">> >>)>>),
     Txt(<< <<"a">> >>),
     El("div", <<El("p", <<Txt(<< <<"a">> >>)>>)>>),
     MobiImg(TRUE),
     MobiImg(FALSE)}

MobiFiles ==
    {[format |-> "mobi", body |-> b] : b \in SeqsUpTo(MobiNodeKinds, MaxNodes)}

EpubNodeKinds ==
    {El("p", <<Txt(<< <<"a">> >>)>>),
     El("p", <<Txt(<< <<".">> >>)>>),
     El("header", <<Txt(<< <<"a">> >>)>>),
     El("p", <<Txt(<< <<"-">> >>)>>),
     Txt(<< <<"a">> >>),
     El("img", <<>>),
     El("p", <<Txt(<< <<".">>, <<".">>, <<".">>, <<".">> >>)>>)}

SpineItems ==
    {[load |-> "ok", body |-> b] : b \in SeqsUpTo(EpubNodeKinds, MaxItemNodes)}
        \cup {[load |-> l, body |-> <<>>] : l \in {"nosection", "nocontents", "throws"}}

EpubFiles ==
    {[format |-> "epub", spineItems |-> s] : s \in SeqsUpTo(SpineItems, MaxSpine)}

\* spine items of one paragraph that nearly fills a page, of one word, and
\* of one image
LongSpineItems ==
    {[load |-> "ok", body |-> <<El("p", <<Txt(WordsA(minWordsPerPage - 1))>>)>>],
     [load |-> "ok", body |-> <<El("p", <<Txt(WordsA(1))>>)>>],
     [load |-> "ok", body |-> <<El("img", <<>>)>>]}

LongEpubFiles ==
    {[format |-> "epub", spineItems |-> s] : s \in SeqsUpTo(LongSpineItems, MaxSpine)}

\* three spine items, each of one word or failing in one of the three ways
FailingSpineItems ==
    {[load |-> "ok", body |-> <<El("p", <<Txt(WordsA(1))>>)>>]}
        \cup {[load |-> l, body |-> <<>>] : l \in {"nosection", "nocontents", "throws"}}

FailingEpubFiles ==
    {[format |-> "epub", spineItems |-> <<a, b, c>>] :
        a \in FailingSpineItems, b \in FailingSpineItems, c \in FailingSpineItems}

Files == TextFiles \cup MobiFiles \cup EpubFiles \cup LongEpubFiles \cup FailingEpubFiles

\* registry.getAdapterForFile(file) and adapter.parse(file)
adapterParse(f) ==
    IF f.format = "text" THEN textAdapterParse(f.paragraphs)
    ELSE IF f.format = "mobi" THEN mobiAdapterParse(f.body)
    ELSE epubAdapterParse(f.spineItems)

\* the indexMap parseFile builds for the adapter result res, <<>> when it builds none
BuiltIndexMap(res) ==
    LET words == MergeTinyPages(res.document).words
        mergedTexts == mergeOrphanedPunctuation(TextsOf(words))
    IN  IF Len(words) > 0 /\ Len(mergedTexts) # Len(words)
        THEN Rebuild(words, mergedTexts).indexMap
        ELSE <<>>

Init ==
    /\ SegmenterIdle
    /\ parsePc = "parsing"
    /\ file \in Files
    /\ adapterResult = NoResult
    /\ idxMap = <<>>
    /\ parseResult = NoResult
    /\ KindleIdle
    /\ ReaderIdle

\* const result = await adapter.parse(file)
AdapterParse ==
    /\ parsePc = "parsing"
    /\ adapterResult' = adapterParse(file)
    /\ parsePc' = "adapted"
    /\ UNCHANGED <<file, idxMap, parseResult>>
    /\ UNCHANGED segVars
    /\ UNCHANGED kindleVars
    /\ UNCHANGED readerVars

\* the rest of parseFile: both post-processing steps, then return result
ParseFileReturn ==
    /\ parsePc = "adapted"
    /\ idxMap' = BuiltIndexMap(adapterResult)
    /\ parseResult' = PostProcess(adapterResult)
    /\ parsePc' = "returned"
    /\ UNCHANGED <<file, adapterResult>>
    /\ UNCHANGED segVars
    /\ UNCHANGED kindleVars
    /\ UNCHANGED readerVars

Next == AdapterParse \/ ParseFileReturn

Spec == Init /\ [][Next]_vars

----------------------------------------------------------------------------
(* The Kindle container functions applied to bounded inputs *)

\* a literal run of 2 and of 8, literals, back-reference lead bytes whose
\* second byte gives distance 0, 1, 2, 8, 16 or 24, and a space-plus-literal
PalmBytes == {0, 2, 8, 17, 65, 128, 193}

\* an empty record, plain text, compressed text, and a JPEG image
RecordKinds == {<<>>, <<65>>, <<65, 128, 8>>, <<255, 216, 255, 224>>}

ShortContainers == {[byteLength |-> 99]}

\* the offsets of n records of 78 bytes laid out one after the other
LaidOut(n) == [i \in 1..n |-> 112 + 78 * (i - 1)]

Containers ==
    {[byteLength |-> 112 + 78 * n, recordCount |-> n, ident |-> id,
      compression |-> cmp, encryption |-> enc, textRecordCount |-> t,
      firstImageRecord |-> f, recordOffsets |-> LaidOut(n), records |-> rs] :
        n \in 0..MaxRecords, id \in {"MOBI", "TEXt"}, cmp \in {1, 2, 3, 17480},
        enc \in {0, 1, 2}, t \in 0..(MaxRecords - 1), f \in 0..(MaxRecords - 1),
        rs \in SeqsUpTo(RecordKinds, MaxRecords - 1)}

\* the containers whose record table has as many records as the header counts
WholeContainers ==
    {c \in Containers : Len(c.records) = IF c.recordCount = 0 THEN 0 ELSE c.recordCount - 1}

\* offsets of a file of 346 bytes: three that leave room for a record header,
\* one inside the file whose header would end past it, one past the end
OffsetChoices == {112, 190, 268, 330, 400}

RECURSIVE SeqsOfLen(_, _)
\* all sequences over S of length n
SeqsOfLen(S, n) ==
    IF n = 0 THEN {<<>>}
    ELSE {Append(s, x) : s \in SeqsOfLen(S, n - 1), x \in S}

\* unencrypted, uncompressed containers with every record offset table
OffsetContainers ==
    UNION {{[byteLength |-> 346, recordCount |-> n, ident |-> id,
             compression |-> 1, encryption |-> 0, textRecordCount |-> t,
             firstImageRecord |-> f, recordOffsets |-> os,
             records |-> [i \in 1..(n - 1) |-> <<65>>]] :
               id \in {"MOBI", "TEXt"}, t \in 0..(MaxRecords - 1),
               f \in 0..(MaxRecords - 1), os \in SeqsOfLen(OffsetChoices, n)} :
           n \in 2..MaxRecords}

InitKindle ==
    /\ kindlePc \in {"decompressPalmDoc", "parseMobiFile"}
    /\ packed \in IF kindlePc = "decompressPalmDoc"
                  THEN SeqsUpTo(PalmBytes, MaxCompressedLen) ELSE {<<>>}
    /\ container \in IF kindlePc = "parseMobiFile"
                     THEN ShortContainers \cup WholeContainers \cup OffsetContainers
                     ELSE {NoContainer}
    /\ palm = NoPalm
    /\ mobiFile = MobiStart
    /\ mobiResult = NoMobiResult
    /\ SegmenterIdle
    /\ ParseIdle
    /\ ReaderIdle

DecompressPalmDoc ==
    /\ kindlePc = "decompressPalmDoc"
    /\ palm' = decompressPalmDoc(packed)
    /\ kindlePc' = "decompressReturned"
    /\ UNCHANGED <<packed, container, mobiFile, mobiResult>>
    /\ UNCHANGED segVars
    /\ UNCHANGED parseVars
    /\ UNCHANGED readerVars

ParseMobiFile ==
    /\ kindlePc = "parseMobiFile"
    /\ mobiFile' = parseMobiFile(container)
    /\ kindlePc' = "parseMobiFileReturned"
    /\ UNCHANGED <<packed, palm, container, mobiResult>>
    /\ UNCHANGED segVars
    /\ UNCHANGED parseVars
    /\ UNCHANGED readerVars

\* mobiAdapter.parse around the call of parseMobiFile
MobiAdapterParse ==
    /\ kindlePc = "parseMobiFileReturned"
    /\ mobiResult' = mobiAdapterResult(mobiFile)
    /\ kindlePc' = "mobiAdapterReturned"
    /\ UNCHANGED <<packed, palm, container, mobiFile>>
    /\ UNCHANGED segVars
    /\ UNCHANGED parseVars
    /\ UNCHANGED readerVars

NextKindle == DecompressPalmDoc \/ ParseMobiFile \/ MobiAdapterParse

SpecKindle == InitKindle /\ [][NextKindle]_vars

----------------------------------------------------------------------------
(* The document store, the reader store and loadFile.  A word is shown for *)
(* its duration by a timeout; `timers` is the browser's set of timeouts    *)
(* that are set and have neither fired nor been cleared.                   *)

MaxTimers == 2          \* timeouts that may be pending together
MaxPlaybackWords == 4   \* longest document played to its end
MaxWordIndex == 5       \* the timer callback is not followed past this wordIndex

\* a parsed document: word texts, and the starts of paragraphs and pages
ReaderDocument(texts, paragraphStarts, pageStarts) ==
    [words |-> [i \in 1..Len(texts) |-> [text |-> texts[i]]],
     totalWords |-> Len(texts),
     paragraphStarts |-> paragraphStarts,
     pageStarts |-> pageStarts]

\* the files handed to loadFile: their key and what the parser makes of them
ReaderFiles ==
    {[fileKey |-> "a.txt_1",
      parsed |-> ReaderDocument(<<"w", "w", "w">>, <<0, 2>>, <<0, 1>>)],
     [fileKey |-> "b.txt_2",
      parsed |-> ReaderDocument(<<"w", "">>, <<0>>, <<0, 1>>)],
     [fileKey |-> "b.txt_2", parsed |-> NoDocument]}

\* getWordIndexForPage; getWordIndexForParagraph is the same code over
\* paragraphStarts
getWordIndexForPage(starts, totalWords, pageIndex) ==
    IF pageIndex < 0 THEN 0
    ELSE IF pageIndex >= Len(starts) THEN totalWords - 1
    ELSE starts[pageIndex + 1]

\* getPageForWordIndex; getParagraphForWordIndex is the same code
getPageForWordIndex(starts, wordIndex) ==
    IF \E i \in 1..Len(starts) : starts[i] <= wordIndex
    THEN (CHOOSE i \in 1..Len(starts) :
              /\ starts[i] <= wordIndex
              /\ \A j \in (i + 1)..Len(starts) : starts[j] > wordIndex) - 1
    ELSE 0

\* getNextPageStart; getNextParagraphStart is the same code
getNextPageStart(starts, totalWords, currentWordIndex) ==
    getWordIndexForPage(starts, totalWords,
                        getPageForWordIndex(starts, currentWordIndex) + 1)

\* getPreviousPageStart; getPreviousParagraphStart is the same code
getPreviousPageStart(starts, totalWords, currentWordIndex) ==
    IF starts[getPageForWordIndex(starts, currentWordIndex) + 1] = currentWordIndex
    THEN getWordIndexForPage(starts, totalWords,
                             getPageForWordIndex(starts, currentWordIndex) - 1)
    ELSE starts[getPageForWordIndex(starts, currentWordIndex) + 1]

\* the reader store's closure state and the timeouts, as one value
Playback ==
    [state |-> reader, playbackInterval |-> playbackInterval, timers |-> timers]

SetPlayback(p) ==
    /\ reader' = p.state
    /\ playbackInterval' = p.playbackInterval
    /\ timers' = p.timers

clearPlayback(p) ==
    IF p.playbackInterval # NoTimer
    THEN [p EXCEPT !.timers = @ \ {p.playbackInterval},
                   !.playbackInterval = NoTimer]
    ELSE p

\* setTimeout hands out a handle no pending timeout has
setTimeout(p) ==
    [p EXCEPT !.playbackInterval = CHOOSE id \in 1..MaxTimers : id \notin p.timers,
              !.timers = @ \cup {CHOOSE id \in 1..MaxTimers : id \notin p.timers}]

RECURSIVE scheduleNextWord(_, _)
scheduleNextWord(p, doc) ==
    IF ~p.state.isPlaying \/ doc.document = NoDocument
    THEN clearPlayback(p)
    ELSE IF p.state.wordIndex >= Len(doc.document.words) - 1
    THEN clearPlayback([p EXCEPT !.state.isPlaying = FALSE])   \* reached end
    ELSE IF p.state.wordIndex < 0                              \* undefined word
    THEN [clearPlayback(p) EXCEPT !.state.isPlaying = FALSE]
    ELSE IF doc.document.words[p.state.wordIndex + 1].text \in {"", " "}
    THEN scheduleNextWord([p EXCEPT !.state.wordIndex = @ + 1], doc)
    ELSE setTimeout(p)

\* saveProgress(doc.fileKey, wordIndex, ...) under `if (doc.fileKey && doc.document)`
saveProgress(doc, wordIndex) ==
    IF doc.fileKey # "" /\ doc.document # NoDocument
    THEN [progress EXCEPT ![doc.fileKey] = wordIndex]
    ELSE progress

\* clearPlayback() and isPlaying: false, as pause and toggle do
pausePlayback(p) == [clearPlayback(p) EXCEPT !.state.isPlaying = FALSE]

\* the state reader.setWordIndex(index) leaves
clampWordIndex(state, doc, index) ==
    IF doc.document = NoDocument THEN state
    ELSE [state EXCEPT
            !.wordIndex = IF index > Len(doc.document.words) - 1
                          THEN (IF Len(doc.document.words) - 1 < 0 THEN 0
                                ELSE Len(doc.document.words) - 1)
                          ELSE (IF index < 0 THEN 0 ELSE index),
            !.hasStarted = TRUE]

otherVars == <<segVars, parseVars, kindleVars>>

\* a navigation operation: only the store's state changes
Navigate(state) ==
    /\ reader' = state
    /\ UNCHANGED <<docStore, playbackInterval, timers, progress, loadingFile>>
    /\ UNCHANGED otherVars

play ==
    /\ Cardinality(timers) < MaxTimers
    /\ SetPlayback(scheduleNextWord(
           [Playback EXCEPT !.state.isPlaying = TRUE,
                            !.state.hasStarted = TRUE,
                            !.state.lastReadIndex = reader.wordIndex],
           docStore))
    /\ UNCHANGED <<docStore, progress, loadingFile>>
    /\ UNCHANGED otherVars

pause ==
    /\ SetPlayback(pausePlayback(Playback))
    /\ progress' = saveProgress(docStore, reader.wordIndex)
    /\ UNCHANGED <<docStore, loadingFile>>
    /\ UNCHANGED otherVars

toggle ==
    /\ IF reader.isPlaying
       THEN /\ SetPlayback(pausePlayback(Playback))
            /\ progress' = saveProgress(docStore, reader.wordIndex)
       ELSE /\ Cardinality(timers) < MaxTimers
            /\ SetPlayback(scheduleNextWord(
                   [Playback EXCEPT !.state.isPlaying = TRUE,
                                    !.state.hasStarted = TRUE,
                                    !.state.lastReadIndex = reader.wordIndex],
                   docStore))
            /\ UNCHANGED progress
    /\ UNCHANGED <<docStore, loadingFile>>
    /\ UNCHANGED otherVars

\* the callback of the timeout with handle id
TimerFires(id) ==
    /\ id \in timers
    /\ reader.wordIndex < MaxWordIndex
    /\ IF docStore.document = NoDocument
       THEN /\ SetPlayback(clearPlayback([Playback EXCEPT !.timers = @ \ {id}]))
            /\ UNCHANGED progress
       ELSE /\ progress' = IF (reader.wordIndex + 1) % 10 = 0
                           THEN saveProgress(docStore, reader.wordIndex + 1)
                           ELSE progress
            /\ SetPlayback(scheduleNextWord(
                   [Playback EXCEPT !.timers = @ \ {id},
                                    !.state.wordIndex = reader.wordIndex + 1,
                                    !.state.lastReadIndex = reader.wordIndex + 1],
                   docStore))
    /\ UNCHANGED <<docStore, loadingFile>>
    /\ UNCHANGED otherVars

setWordIndex(index) == Navigate(clampWordIndex(reader, docStore, index))

nextWord ==
    Navigate(IF docStore.document = NoDocument THEN reader
             ELSE [reader EXCEPT
                     !.wordIndex = IF @ + 1 < Len(docStore.document.words) - 1
                                   THEN @ + 1
                                   ELSE Len(docStore.document.words) - 1,
                     !.hasStarted = TRUE])

prevWord ==
    Navigate([reader EXCEPT !.wordIndex = IF @ - 1 > 0 THEN @ - 1 ELSE 0,
                            !.hasStarted = TRUE])

nextParagraph ==
    Navigate(IF docStore.document = NoDocument THEN reader
             ELSE [reader EXCEPT
                     !.wordIndex = getNextPageStart(docStore.document.paragraphStarts,
                                                    docStore.document.totalWords, @),
                     !.hasStarted = TRUE])

prevParagraph ==
    Navigate(IF docStore.document = NoDocument THEN reader
             ELSE [reader EXCEPT
                     !.wordIndex = getPreviousPageStart(docStore.document.paragraphStarts,
                                                        docStore.document.totalWords, @),
                     !.hasStarted = TRUE])

nextPage ==
    Navigate(IF docStore.document = NoDocument THEN reader
             ELSE [reader EXCEPT
                     !.wordIndex = getNextPageStart(docStore.document.pageStarts,
                                                    docStore.document.totalWords, @),
                     !.hasStarted = TRUE])

prevPage ==
    Navigate(IF docStore.document = NoDocument THEN reader
             ELSE [reader EXCEPT
                     !.wordIndex = getPreviousPageStart(docStore.document.pageStarts,
                                                        docStore.document.totalWords, @),
                     !.hasStarted = TRUE])

goToStart == Navigate([reader EXCEPT !.wordIndex = 0])

goToEnd ==
    Navigate(IF docStore.document = NoDocument THEN reader
             ELSE [reader EXCEPT !.wordIndex = Len(docStore.document.words) - 1,
                                 !.hasStarted = TRUE])

goToLastRead ==
    Navigate(IF reader.lastReadIndex = NoProgress THEN reader
             ELSE [reader EXCEPT !.wordIndex = reader.lastReadIndex])

\* loadFile up to its await: reader.pause(), documentStore.setLoading(file.name)
LoadFileStart(f) ==
    /\ loadingFile = NoLoad
    /\ SetPlayback(pausePlayback(Playback))
    /\ progress' = saveProgress(docStore, reader.wordIndex)
    /\ docStore' = [docStore EXCEPT !.loading = TRUE, !.error = FALSE]
    /\ loadingFile' = f
    /\ UNCHANGED otherVars

\* loadFile after the parse: setError when the parse gave no words, else
\* setDocument, then restoreProgress(fileKey) or setWordIndex(0)
LoadFileFinish ==
    /\ loadingFile # NoLoad
    /\ IF Len(loadingFile.parsed.words) = 0
       THEN /\ docStore' = [docStore EXCEPT !.loading = FALSE, !.error = TRUE]
            /\ UNCHANGED reader
       ELSE /\ docStore' = [loading |-> FALSE, error |-> FALSE,
                            fileKey |-> loadingFile.fileKey,
                            document |-> loadingFile.parsed]
            /\ reader' = IF progress[loadingFile.fileKey] # NoProgress
                         THEN [reader EXCEPT !.wordIndex = progress[loadingFile.fileKey]]
                         ELSE clampWordIndex(reader, docStore', 0)
    /\ loadingFile' = NoLoad
    /\ UNCHANGED <<playbackInterval, timers, progress>>
    /\ UNCHANGED otherVars

InitReader ==
    /\ ReaderIdle
    /\ SegmenterIdle
    /\ ParseIdle
    /\ KindleIdle

NextReader ==
    \/ play
    \/ pause
    \/ toggle
    \/ \E id \in timers : TimerFires(id)
    \/ \E index \in {0 - 1, 1, 5} : setWordIndex(index)
    \/ nextWord
    \/ prevWord
    \/ nextParagraph
    \/ prevParagraph
    \/ nextPage
    \/ prevPage
    \/ goToStart
    \/ goToEnd
    \/ goToLastRead
    \/ \E f \in ReaderFiles : LoadFileStart(f)
    \/ LoadFileFinish

SpecReader == InitReader /\ [][NextReader]_vars

\* the documents played to their end: shown words and placeholder words
PlaybackDocs ==
    {ReaderDocument(texts, <<0>>, <<0>>) :
        texts \in SeqsUpTo({"w", ""}, MaxPlaybackWords) \ {<<>>}}

\* a document is loaded, the reader stands on one of its words, play() has
\* not been called
InitPlayback ==
    /\ docStore \in {[loading |-> FALSE, error |-> FALSE, fileKey |-> "a.txt_1",
                       document |-> d] : d \in PlaybackDocs}
    /\ reader \in {[wordIndex |-> i, isPlaying |-> FALSE, hasStarted |-> h,
                     lastReadIndex |-> NoProgress] :
                        i \in 0..(Len(docStore.document.words) - 1), h \in BOOLEAN}
    /\ playbackInterval = NoTimer
    /\ timers = {}
    /\ progress = [k \in FileKeys |-> NoProgress]
    /\ loadingFile = NoLoad
    /\ SegmenterIdle
    /\ ParseIdle
    /\ KindleIdle

\* play() is called once; after it only the timeouts act
NextPlayback ==
    \/ reader.lastReadIndex = NoProgress /\ play
    \/ \E id \in timers : TimerFires(id)

\* the browser runs the callback of every timeout that stays pending
SpecPlayback ==
    InitPlayback /\ [][NextPlayback]_vars /\ WF_vars(\E id \in timers : TimerFires(id))

----------------------------------------------------------------------------
(* Properties of the word segmenter *)

RECURSIVE RunsFrom(_, _, _)
\* the concatenations of the consecutive runs of W that the cut positions
\* (the last index of every run but the final one) delimit, from index lo
RunsFrom(W, cuts, lo) ==
    IF lo > Len(W) THEN <<>>
    ELSE LET later == {c \in cuts : c >= lo}
             hi == IF later = {} THEN Len(W)
                   ELSE CHOOSE c \in later : \A d \in later : c <= d
         IN  <<Concat(SubSeq(W, lo, hi))>> \o RunsFrom(W, cuts, hi + 1)

\* out lists, in order, the concatenations of consecutive non-empty runs
\* that partition W
IsRunPartition(W, out) ==
    \E cuts \in SUBSET (1..(Len(W) - 1)) : out = RunsFrom(W, cuts, 1)

\* C8: for every token list W, mergeOrphanedPunctuation(W) is no longer than
\* W and its tokens are, in order, the exact concatenations of consecutive
\* non-empty runs that partition W.
C8_MergeIsRunPartition ==
    segPc = "mergeReturned" =>
        /\ Len(merged) <= Len(wordList)
        /\ IsRunPartition(wordList, merged)

\* a list in which an opening token, a word and closing tokens collapsed
C8_Witness ==
    /\ segPc = "mergeReturned"
    /\ Len(wordList) = 4
    /\ leadingPunctuation(wordList[1])
    /\ trailingPunctuation(wordList[3])
    /\ Len(merged) = 1

\* C9: for every non-empty token t, splitOnDashes(t) returns a non-empty
\* list of non-empty tokens whose concatenation equals t.
C9_SplitRoundTrip ==
    (segPc = "splitReturned" /\ Len(token) > 0) =>
        /\ Len(tokens) > 0
        /\ \A k \in 1..Len(tokens) : Len(tokens[k]) > 0
        /\ Concat(tokens) = token

\* every mark of the token t sits at its end: t is a piece free of marks
\* followed by zero or more marks
MarksOnlyAtEnd(t) ==
    LET parts == SplitByPattern(t, <<>>)
    IN  \A i \in 2..Len(parts) : parts[i] \notin {<<"em">>, <<"en">>, <<"el">>, ThreeDots} => parts[i] = <<>>

\* each mark of word is attached to the end of the token that precedes it
DashRule(word, out) ==
    /\ Concat(out) = word
    /\ \A k \in 1..Len(out) :
          /\ Len(out[k]) > 0
          /\ MarksOnlyAtEnd(out[k])
          /\ k < Len(out) => TestSplitPattern(out[k])

\* C10: splitOnDashes follows the two-rule definition: three or more
\* hyphen-separated parts give one token per part, the hyphen re-attached to
\* every part but the last; two parts are not split at the hyphen; otherwise
\* every dash or ellipsis mark ends the token that precedes it; a token
\* without marks is returned unchanged.
C10_SplitTwoRules ==
    segPc = "splitReturned" =>
        LET hyphenParts == SplitOn(token, "-")
        IN  IF Len(hyphenParts) > 2
            THEN tokens = ReattachHyphens(hyphenParts)
            ELSE IF TestSplitPattern(token)
                 THEN DashRule(token, tokens)
                 ELSE tokens = <<token>>

\* C11: in the output of mergeOrphanedPunctuation no token other than the
\* last consists solely of opening punctuation and no token other than the
\* first consists solely of closing or terminal punctuation.
C11_NoOrphanLeft ==
    segPc = "mergeReturned" =>
        /\ \A k \in 1..(Len(merged) - 1) : ~leadingPunctuation(merged[k])
        /\ \A k \in 2..Len(merged) : ~trailingPunctuation(merged[k])

----------------------------------------------------------------------------
(* Properties of parseFile and of the adapters *)

\* the largest k with starts[k] <= i (0-based), -1 when there is none
BoundaryLookup(starts, i) ==
    LET ks == {k \in 0..(Len(starts) - 1) : starts[k + 1] <= i}
    IN  IF ks = {} THEN -1 ELSE CHOOSE k \in ks : \A r \in ks : r <= k

StrictlyIncreasing(s) == \A k \in 1..(Len(s) - 1) : s[k] < s[k + 1]

\* the re-merge of parseFile changed the word count and built an index map
Remerged == parsePc = "returned" /\ idxMap # <<>>

\* the items of a block's markup that carry a data-word-index
Markers(html) == SelectSeq(html, LAMBDA it : it.k \in {"span", "img"} /\ it.idx >= 0)

\* C1: applying parseFile's post-processing to its own output changes
\* nothing: word texts, pageStarts, every word's pageIndex, every block's
\* htmlWithMarkers and wordRange, and chapterStarts stay as they are.
C1_ReconcileIdempotent ==
    parsePc = "returned" =>
        LET again == PostProcess(parseResult)
        IN  /\ TextsOf(again.document.words) = TextsOf(parseResult.document.words)
            /\ again.document.pageStarts = parseResult.document.pageStarts
            /\ \A k \in 1..Len(parseResult.document.words) :
                  again.document.words[k].pageIndex = parseResult.document.words[k].pageIndex
            /\ again.preview.chapterContents = parseResult.preview.chapterContents
            /\ again.preview.chapterStarts = parseResult.preview.chapterStarts

\* C2: the index map of the re-merge is total (no old index stays at -1),
\* non-decreasing, and sends every old index to the merged token whose
\* contiguous run of original tokens contains it.
C2_IndexMapTotalMonotone ==
    Remerged =>
        LET W == TextsOf(adapterResult.document.words)
            out == TextsOf(parseResult.document.words)
        IN  /\ Len(idxMap) = Len(W)
            /\ \A i \in 1..Len(idxMap) : idxMap[i] >= 0 /\ idxMap[i] < Len(out)
            /\ \A i \in 1..(Len(idxMap) - 1) : idxMap[i] <= idxMap[i + 1]
            /\ \A n \in 0..(Len(out) - 1) :
                  LET run == {i \in 1..Len(idxMap) : idxMap[i] = n}
                  IN  /\ run # {}
                      /\ out[n + 1] = Concat(SelectSeq(
                             [i \in 1..Len(W) |-> IF i \in run THEN W[i] ELSE <<>>],
                             LAMBDA w : TRUE))

\* C3: after the re-merge every data-word-index of every block is a valid
\* index into the new word array and lies inside the block's recomputed
\* wordRange, and every wordRange has 0 <= start <= end < totalWords.
C3_MarkersValidAfterRemerge ==
    (Remerged /\ parseResult.preview.present) =>
        \A c \in 1..Len(parseResult.preview.chapterContents) :
            LET chapter == parseResult.preview.chapterContents[c]
                start == chapter.wordRange[1]
                end == chapter.wordRange[2]
                marks == Markers(chapter.htmlWithMarkers)
            IN  /\ 0 <= start /\ start <= end /\ end < parseResult.document.totalWords
                /\ \A k \in 1..Len(marks) :
                      /\ 0 <= marks[k].idx
                      /\ marks[k].idx < parseResult.document.totalWords
                      /\ start <= marks[k].idx /\ marks[k].idx <= end

\* every entry of the returned table is below totalWords and is the image
\* under the index map of an entry of the adapter's table
RemappedTable(new, old) ==
    \A k \in 1..Len(new) :
        /\ new[k] < parseResult.document.totalWords
        /\ \E j \in 1..Len(old) :
              old[j] >= 0 /\ old[j] < Len(idxMap) /\ new[k] = idxMap[old[j] + 1]

\* C4: when the re-merge changes the word count, pageStarts, paragraphStarts
\* and chapterStarts are remapped through the index map of the words, so
\* that every boundary entry is smaller than the new totalWords.
C4_BoundaryTablesRemapped ==
    Remerged =>
        /\ RemappedTable(parseResult.document.pageStarts,
                         MergeTinyPages(adapterResult.document).pageStarts)
        /\ RemappedTable(parseResult.document.paragraphStarts,
                         adapterResult.document.paragraphStarts)
        /\ RemappedTable(parseResult.preview.chapterStarts,
                         adapterResult.preview.chapterStarts)

\* the adapter returned the result of parseEpub
EpubParsed == parsePc = "adapted" /\ file.format = "epub"

\* C5: for every EPUB spine item the data-word-index values on text spans
\* are exactly the indices of the words parseEpub appended for the item,
\* and the texts of the spans that carry n, concatenated in document order,
\* equal words[n].text (the empty placeholder word of an image-only item,
\* which stands for no text, is left out).
C5_MarkersMatchWords ==
    EpubParsed =>
        \A c \in 1..Len(adapterResult.preview.chapterContents) :
            LET content == adapterResult.preview.chapterContents[c]
                chapter == adapterResult.chapters[content.chapterIndex + 1]
                words == adapterResult.document.words
                appended == {n \in chapter.wordStart..chapter.wordEnd :
                                words[n + 1].text # <<>>}
                spans == SelectSeq(content.htmlWithMarkers, IsSpan)
            IN  /\ {spans[k].idx : k \in 1..Len(spans)} = appended
                /\ \A n \in appended :
                      LET mine == SelectSeq(spans, LAMBDA s : s.idx = n)
                      IN  Concat([k \in 1..Len(mine) |-> mine[k].text]) = words[n + 1].text

\* the table is strictly increasing, starts at 0 and stays below totalWords
WellFormedStarts(starts, totalWords) ==
    /\ Len(starts) > 0
    /\ starts[1] = 0
    /\ StrictlyIncreasing(starts)
    /\ \A k \in 1..Len(starts) : starts[k] < totalWords

\* C6: in every document with at least one word that an adapter produced,
\* pageStarts and paragraphStarts are strictly increasing, start at 0 and
\* every entry is smaller than totalWords.
C6_StartsStrictlyIncreasing ==
    (parsePc = "adapted" /\ adapterResult.document.totalWords > 0) =>
        /\ WellFormedStarts(adapterResult.document.pageStarts,
                            adapterResult.document.totalWords)
        /\ WellFormedStarts(adapterResult.document.paragraphStarts,
                            adapterResult.document.totalWords)

\* each word's stored indices are the ones the boundary lookup gives
StoredIndicesMatch(document) ==
    \A i \in 0..(Len(document.words) - 1) :
        /\ document.words[i + 1].paragraphIndex
               = BoundaryLookup(document.paragraphStarts, i)
        /\ document.words[i + 1].pageIndex = BoundaryLookup(document.pageStarts, i)

\* C7: in every document returned by parseEpub and by parseFile each word's
\* stored paragraphIndex is the largest k with paragraphStarts[k] <= i and
\* its stored pageIndex the largest k with pageStarts[k] <= i.
C7_StoredIndicesMatchLookup ==
    /\ EpubParsed => StoredIndicesMatch(adapterResult.document)
    /\ parsePc = "returned" => StoredIndicesMatch(parseResult.document)

RECURSIVE IsSubsequence(_, _)
\* s is t with some entries left out
IsSubsequence(s, t) ==
    IF s = <<>> THEN TRUE
    ELSE IF t = <<>> THEN FALSE
    ELSE IF Head(s) = Head(t) THEN IsSubsequence(Tail(s), Tail(t))
    ELSE IsSubsequence(s, Tail(t))

\* the words with index lo..hi whose text is not blank
NonBlankWords(words, lo, hi) ==
    {i \in lo..hi : i < Len(words) /\ words[i + 1].text # <<>>}

\* C12: after the tiny-page merge of parseFile the page table begins with
\* 0, is a subsequence of the adapter's page table, and every page but the
\* last holds at least 20 words whose text is not blank.
C12_TinyPagesMerged ==
    parsePc = "returned" =>
        /\ parseResult.document.pageStarts = MergeTinyPages(adapterResult.document).pageStarts
        /\ Len(parseResult.document.pageStarts) > 0
        /\ parseResult.document.pageStarts[1] = 0
        /\ IsSubsequence(parseResult.document.pageStarts, adapterResult.document.pageStarts)
        /\ \A k \in 1..(Len(parseResult.document.pageStarts) - 1) :
              Cardinality(NonBlankWords(adapterResult.document.words,
                                        parseResult.document.pageStarts[k],
                                        parseResult.document.pageStarts[k + 1] - 1)) >= 20

\* pages were merged into one that reached 20 words and was closed
C12_Witness ==
    /\ parsePc = "returned"
    /\ Len(parseResult.document.pageStarts) < Len(adapterResult.document.pageStarts)
    /\ Len(parseResult.document.pageStarts) >= 2

\* every entry of the page table is an entry of the paragraph table
PagesBeginParagraphs(document) ==
    \A k \in 1..Len(document.pageStarts) :
        \E j \in 1..Len(document.paragraphStarts) :
            document.paragraphStarts[j] = document.pageStarts[k]

\* C13: every page boundary that parseText and parseEpub create coincides
\* with a paragraph start: each entry of pageStarts is an entry of
\* paragraphStarts (checked for the documents that have words).
C13_PagesBeginParagraphs ==
    (/\ parsePc = "adapted"
     /\ file.format \in {"text", "epub"}
     /\ adapterResult.document.totalWords > 0) =>
        PagesBeginParagraphs(adapterResult.document)

\* the chapters cover the words 0..totalWords-1 without gaps or overlaps
ChaptersCover(chapters, totalWords) ==
    /\ Len(chapters) = 0 => totalWords = 0
    /\ Len(chapters) > 0 =>
          /\ chapters[1].wordStart = 0
          /\ chapters[Len(chapters)].wordEnd = totalWords - 1
    /\ \A k \in 1..(Len(chapters) - 1) :
          chapters[k].wordEnd = chapters[k + 1].wordStart - 1

\* C14: in every chapter list of parseEpub and of parseMobiContent
\* chapters[k].wordEnd = chapters[k+1].wordStart - 1, the first chapter
\* starts at word 0 and the last one ends at word totalWords - 1.
C14_ChaptersCoverWords ==
    (parsePc = "adapted" /\ file.format \in {"epub", "mobi"}) =>
        ChaptersCover(adapterResult.chapters, adapterResult.document.totalWords)

\* a list of at least two chapters, the second of which holds words
C14_Witness ==
    /\ parsePc = "adapted"
    /\ file.format \in {"epub", "mobi"}
    /\ Len(adapterResult.chapters) >= 2
    /\ adapterResult.chapters[2].wordEnd >= adapterResult.chapters[2].wordStart

\* C15: the chapterStarts table of parseEpub and of parseMobiContent is
\* strictly increasing, starts at 0 and every entry is smaller than
\* totalWords (checked for the documents that have words).
C15_ChapterStartsIncreasing ==
    (/\ parsePc = "adapted"
     /\ file.format \in {"epub", "mobi"}
     /\ adapterResult.document.totalWords > 0) =>
        WellFormedStarts(adapterResult.preview.chapterStarts,
                         adapterResult.document.totalWords)

\* the position of the last word span before position p, 0 when there is none
LastSpanBefore(html, p) ==
    LET js == {j \in 1..(p - 1) : IsSpan(html[j])}
    IN  IF js = {} THEN 0 ELSE CHOOSE j \in js : \A r \in js : r <= j

\* every image carries the index of the nearest word span before it, and
\* from one word span to the next the index grows by one at most
ImagesShareWordIndex(html) ==
    \A p \in 1..Len(html) :
        /\ html[p].k = "img" =>
              /\ html[p].idx >= 0
              /\ LastSpanBefore(html, p) > 0 =>
                    html[p].idx = html[LastSpanBefore(html, p)].idx
        /\ (IsSpan(html[p]) /\ LastSpanBefore(html, p) > 0) =>
              html[p].idx <= html[LastSpanBefore(html, p)].idx + 1

\* C16: every image in the annotated markup of a unit carries a
\* data-word-index, the index of the nearest preceding text word of the
\* unit, and an image takes no word index of its own.
C16_ImagesShareWordIndex ==
    (parsePc = "adapted" /\ adapterResult.preview.present) =>
        \A c \in 1..Len(adapterResult.preview.chapterContents) :
            ImagesShareWordIndex(adapterResult.preview.chapterContents[c].htmlWithMarkers)

\* C17: no word of the word array parseEpub produces is a
\* decorative-punctuation token, and no decorative token of the annotated
\* markup carries a data-word-index.
C17_NoDecorativeWord ==
    (parsePc = "adapted" /\ file.format = "epub") =>
        /\ \A k \in 1..Len(adapterResult.document.words) :
              ~isDecorativePunctuation(adapterResult.document.words[k].text)
        /\ \A c \in 1..Len(adapterResult.preview.chapterContents) :
              \A p \in 1..Len(adapterResult.preview.chapterContents[c].htmlWithMarkers) :
                  IsSpan(adapterResult.preview.chapterContents[c].htmlWithMarkers[p]) =>
                      ~isDecorativePunctuation(
                          adapterResult.preview.chapterContents[c].htmlWithMarkers[p].text)

\* The reference decoder, written with arithmetic only.  A position outside
\* the output produced so far reads as 0, a literal run copies the bytes
\* that are there, and a lead byte with no byte after it ends the decoding.
RefRead(out, pos) == IF pos >= 0 /\ pos < Len(out) THEN out[pos + 1] ELSE 0

RECURSIVE RefCopy(_, _, _)
RefCopy(out, distance, length) ==
    IF length = 0 THEN out
    ELSE RefCopy(Append(out, RefRead(out, Len(out) - distance)), distance, length - 1)

RefMin(a, b) == IF a < b THEN a ELSE b

RECURSIVE RefDecode(_, _, _)
\* the reference output for the input from its 0-based position i on
RefDecode(input, i, out) ==
    IF i >= Len(input) THEN out
    ELSE LET b == input[i + 1]
         IN  IF b = 0 THEN RefDecode(input, i + 1, Append(out, 0))
             ELSE IF b <= 8
             THEN RefDecode(input, i + 1 + b,
                      out \o SubSeq(input, i + 2, RefMin(i + 1 + b, Len(input))))
             ELSE IF b <= 127 THEN RefDecode(input, i + 1, Append(out, b))
             ELSE IF b <= 191
             THEN IF i + 1 >= Len(input) THEN out
                  ELSE RefDecode(input, i + 2,
                           RefCopy(out, ((b % 64) * 256 + input[i + 2]) \div 8,
                                   (input[i + 2] % 8) + 3))
             ELSE RefDecode(input, i + 1, out \o <<32, b - 128>>)

\* C18: for every input byte sequence decompressPalmDoc produces the output
\* of the reference decoder: byte 0 gives 0, a byte b in 1..8 copies the
\* next b input bytes, 9..127 give themselves, b in 128..191 with the next
\* byte n appends (n & 7) + 3 bytes copied one at a time from distance
\* (((b & 63) << 8) | n) >> 3 behind the end, and b >= 192 gives 32 and
\* b XOR 128.
C18_MatchesReference ==
    kindlePc = "decompressReturned" => palm.bytes = RefDecode(packed, 0, <<>>)

\* an overlapping copy has repeated the two bytes before it
C18_Witness ==
    /\ kindlePc = "decompressReturned"
    /\ packed = <<65, 17, 128, 17>>
    /\ palm.bytes = <<65, 17, 65, 17, 65, 17>>

\* C19: for every input decompressPalmDoc returns, each step of a
\* back-reference reads a position inside the output produced so far, and
\* a position before the start of the output is emitted as a 0 byte.
C19_ReadsInsideOutput ==
    kindlePc = "decompressReturned" =>
        \A k \in 1..Len(palm.copies) :
            /\ palm.copies[k].pos >= 0 => palm.copies[k].pos < palm.copies[k].size
            /\ palm.copies[k].pos < 0 => palm.copies[k].byte = 0

BadOffsets(c) ==
    \/ \E i \in 1..(c.recordCount - 1) : c.recordOffsets[i] > c.recordOffsets[i + 1]
    \/ \E i \in 1..c.recordCount : c.recordOffsets[i] > c.byteLength

\* C21: for every container with fewer than two records, or whose record
\* offset table is not increasing or holds an offset past the end of the
\* file, parseMobiFile ends with a failure, so that no words are returned.
C21_MalformedFails ==
    (/\ kindlePc = "parseMobiFileReturned"
     /\ container.byteLength >= 100
     /\ (container.recordCount < 2 \/ BadOffsets(container))) =>
        mobiFile.outcome # "parsed"

\* C22: for every unencrypted container with at least two records and an
\* increasing record offset table inside the file, whose compression code is
\* 17480, parseMobiFile ends with the unsupported-compression error,
\* whatever the text record count is.
C22_HuffAlwaysUnsupported ==
    (/\ kindlePc = "parseMobiFileReturned"
     /\ container.byteLength >= 100
     /\ container.recordCount >= 2
     /\ ~BadOffsets(container)
     /\ container.encryption = 0
     /\ container.compression = 17480) =>
        mobiFile.outcome =
            "HUFF/CDIC compression is not supported. Please convert the file to EPUB using Calibre."

\* the messages of the failures of parseMobiFile: a malformed container, a
\* protected one, an unsupported compression and an empty text
FailureMessages ==
    {"Invalid MOBI file: file too small", "Invalid MOBI file: not enough records",
     "RangeError", DrmProtected,
     "HUFF/CDIC compression is not supported. Please convert the file to EPUB using Calibre.",
     "No text content found in MOBI file"}

\* C23: when parseMobiFile fails, the value mobiAdapter.parse returns
\* differs from the value it returns for every other failure in more than
\* the text of the message, and it does not have the fields of a value
\* returned for a parse that found no readable text.
C23_FailureHasKind ==
    (kindlePc = "mobiAdapterReturned" /\ mobiFile.outcome # "parsed") =>
        /\ \A m \in FailureMessages \ {mobiFile.outcome} :
               [mobiResult EXCEPT !.warnings = <<>>]
                   # [mobiAdapterCatch(m) EXCEPT !.warnings = <<>>]
        /\ DOMAIN mobiResult \notin {{"document", "title", "warnings", "extra"},
                                     {"document", "title", "warnings", "preview", "extra"}}

\* s is a prefix of t
IsPrefix(s, t) == Len(s) <= Len(t) /\ s = SubSeq(t, 1, Len(s))

RECURSIVE WordsOfItems(_)
\* the number of words the spine items give when each is parsed alone
WordsOfItems(s) ==
    IF s = <<>> THEN 0
    ELSE parseEpub(<<Head(s)>>, TargetWordsPerPage).totalWords + WordsOfItems(Tail(s))

\* what parseEpub returned for the first k spine items is kept in r
KeepsEarlier(s, k, r) ==
    /\ IsPrefix(parseEpub(SubSeq(s, 1, k), TargetWordsPerPage).words, r.words)
    /\ IsPrefix(parseEpub(SubSeq(s, 1, k), TargetWordsPerPage).paragraphStarts,
                r.paragraphStarts)
    /\ IsPrefix(parseEpub(SubSeq(s, 1, k), TargetWordsPerPage).pageStarts, r.pageStarts)
    /\ IsPrefix(parseEpub(SubSeq(s, 1, k), TargetWordsPerPage).chapterStarts,
                r.chapterStarts)
    /\ IsPrefix(parseEpub(SubSeq(s, 1, k), TargetWordsPerPage).chapters, r.chapters)

RECURSIVE ImagesIn(_)
\* the number of images in the markup of the chapter contents cs: an image
\* is put into the markup exactly when its handle is put into imageUrls
ImagesIn(cs) ==
    IF cs = <<>> THEN 0
    ELSE Cardinality({p \in 1..Len(Head(cs).htmlWithMarkers) :
                         Head(cs).htmlWithMarkers[p].k = "img"})
         + ImagesIn(Tail(cs))

\* C25: every display handle parseMobiFile created is held by the
\* imageUrls of the chapter contents of the value mobiAdapter.parse returns,
\* where the caller's cleanup can find and release it; this includes the
\* handles of images the text does not reference and of parses that fail.
C25_HandlesOwnedByPreview ==
    (kindlePc = "mobiAdapterReturned" /\ mobiFile.handles > 0) =>
        /\ "preview" \in DOMAIN mobiResult
        /\ ImagesIn(mobiResult.preview.chapterContents) >= mobiFile.handles

\* C26: while a document with N >= 1 words is loaded, 0 <= wordIndex <= N - 1
\* holds in the reader store after any interleaving of the store's operations
\* and timer firings
C26_WordIndexInDocument ==
    docStore.document # NoDocument =>
        /\ 0 <= reader.wordIndex
        /\ reader.wordIndex <= Len(docStore.document.words) - 1

\* C27: when pause(), or a toggle() issued while playing, returns, no playback
\* timer is pending, whatever calls of play, pause and toggle came before
C27_PauseLeavesNoTimer ==
    [][(pause \/ (reader.isPlaying /\ toggle)) => timers' = {}]_vars

\* Playback started once on a word of the document, with no further user
\* operation, stops by itself: isPlaying = false, wordIndex = N - 1 and no
\* timer pending are reached, and wordIndex never decreases on the way.
\* (A property of SpecPlayback, whose starting states have 0 <= wordIndex < N
\* and no timer pending.)
PlaybackStopsFromInside ==
    /\ (reader.lastReadIndex # NoProgress) ~>
           (/\ ~reader.isPlaying
            /\ reader.wordIndex = Len(docStore.document.words) - 1
            /\ timers = {})
    /\ [][reader'.wordIndex >= reader.wordIndex]_vars

\* C28: playback started on a loaded document, with no further user operation,
\* stops by itself with isPlaying = false, wordIndex = N - 1 and no timer
\* pending.  In a state where play() leaves playback stopped and no timer
\* pending, nothing acts until the next user operation, so the state play()
\* leaves has to be the one the claim names.
C28_PlaybackStops ==
    LET started == scheduleNextWord(
                       [Playback EXCEPT !.state.isPlaying = TRUE,
                                        !.state.hasStarted = TRUE,
                                        !.state.lastReadIndex = reader.wordIndex],
                       docStore)
    IN  (/\ docStore.document # NoDocument
         /\ ~docStore.loading
         /\ ~reader.isPlaying /\ timers = {}
         /\ ~started.state.isPlaying /\ started.timers = {})
           => started.state.wordIndex = Len(docStore.document.words) - 1

\* C29: a load in progress keeps playback stopped up to its end: when loadFile
\* installs the new document, playback is not running and no playback timer
\* scheduled against the previous document is pending
C29_NoPlaybackWhileLoading ==
    [][(docStore.loading /\ docStore'.document # docStore.document)
          => (~reader.isPlaying /\ timers = {})]_vars

\* C30: in every result of parseEpub chapters and chapterStarts have the same
\* length with chapterStarts[k] = chapters[k].wordStart, and the chapterIndex
\* of each chapterContents entry names the chapter whose wordStart is the
\* start of the entry's wordRange
C30_ChapterTablesAgree ==
    (parsePc = "adapted" /\ file.format = "epub") =>
        /\ Len(adapterResult.chapters) = Len(adapterResult.preview.chapterStarts)
        /\ \A k \in 1..Len(adapterResult.chapters) :
               adapterResult.preview.chapterStarts[k] = adapterResult.chapters[k].wordStart
        /\ \A c \in 1..Len(adapterResult.preview.chapterContents) :
               /\ adapterResult.preview.chapterContents[c].chapterIndex + 1
                      \in 1..Len(adapterResult.chapters)
               /\ adapterResult.chapters[
                      adapterResult.preview.chapterContents[c].chapterIndex + 1].wordStart
                      = adapterResult.preview.chapterContents[c].wordRange[1]

====
